---- MODULE Spec2Model ----
(***************************************************************************)
(* A model of the ingestion pipeline of the AI news aggregator:            *)
(*   StorageService        (src/unnamed/part_002)                          *)
(*   NewsCollectorService  (src/src/services/NewsCollectorService.ts)      *)
(*   SchedulerService      (src/src/services/SchedulerService.ts)          *)
(*                                                                         *)
(* Times are milliseconds since an arbitrary origin, as Date.getTime()     *)
(* gives them.  A day is 24 hours (Date.setDate on a day without a         *)
(* daylight-saving change).                                                *)
(*                                                                         *)
(* Three specifications share the variables:                               *)
(*   SpecStore     the StorageService under arbitrary calls of its API     *)
(*   SpecCollector one collectFromAllSources call, attempt by attempt      *)
(*   Spec          the SchedulerService with its collaborators             *)
(***************************************************************************)
EXTENDS Integers, Sequences, FiniteSets, TLC

VARIABLES
    \* ---- StorageService
    newsItems,      \* the Map<string, NewsItem>, as the sequence of its entries
                    \* [key, item] in insertion order (a JS Map iterates so)
    maxItems,       \* constructor argument
    maxAgeInDays,   \* constructor argument
    now,            \* what new Date() / Date.now() returns
    lastOp,         \* the last API call made and what it returned
    \* ---- NewsCollectorService
    fetch,          \* per source: the state of its collectFromSourceWithRetry promise
    collected,      \* the value collectFromAllSources resolved with, or NotYet
    \* ---- SchedulerService
    isRunning,      \* this.isRunning
    stats,          \* this.stats
    runDurations,   \* this.runDurations
    task,           \* this.task: a timer handle, or NoTask
    timers,         \* the cron timers created so far: handle -> ticking or not
    pc,             \* per invocation of executeCollection: where it is
    runOf,          \* per invocation: its locals (startTime, the batch in hand)
    result,         \* per manual caller: what its last invocation returned
    runsLeft,       \* how many more runs may complete before no run is started
                    \* any more (the bound of the model on the number of runs)
    \* ---- ClassificationService
    defaultCategory,        \* this.defaultCategory
    minConfidenceThreshold, \* this.minConfidenceThreshold, in tenths
    classificationStats,    \* this.classificationStats: category -> count
    lastCall,               \* the last call made to the classifier and what it gave
    earlier                 \* a classifyNews call that did not fail, as the
                            \* observer of SpecRepeat notes it; NoCall before it

storeVars == <<newsItems, maxItems, maxAgeInDays, now, lastOp>>
collectorVars == <<fetch, collected>>
schedVars == <<isRunning, stats, runDurations, task, timers, pc, runOf, result, runsLeft>>
classifierVars ==
    <<defaultCategory, minConfidenceThreshold, classificationStats, lastCall, earlier>>
vars == <<newsItems, maxItems, maxAgeInDays, now, lastOp, fetch, collected,
          isRunning, stats, runDurations, task, timers, pc, runOf, result, runsLeft,
          defaultCategory, minConfidenceThreshold, classificationStats, lastCall,
          earlier>>

(***************************************************************************)
(* Bounds of the model.                                                    *)
(***************************************************************************)
MaxCap == 2            \* the store is built with maxItems in 0..MaxCap
MaxBatch == 2          \* a saveNewsItems batch has at most MaxBatch items
NumSources == 2        \* the first NumSources of the configured RSS_SOURCES are fetched
MaxRuns == 1           \* runs are started until MaxRuns runs have completed
MaxTicks == 1          \* the clock of the scheduler moves MaxTicks times
MaxTimers == 2         \* cron.schedule is called at most MaxTimers times
MaxClassified == 2     \* classifyNewsBatch counts at most MaxClassified items in all
MaxClassifyBatch == 2  \* a classifyNewsBatch batch has at most MaxClassifyBatch items

Undefined == [undefined |-> TRUE]
Null == [null |-> TRUE]

(***************************************************************************)
(* Time.                                                                   *)
(***************************************************************************)
OneHour == 60 * 60 * 1000
DayMs == 24 * OneHour
T0 == 2 * DayMs                       \* the clock when the store is built
Abs(x) == IF x < 0 THEN -x ELSE x

(***************************************************************************)
(* NewsItem values the calls are made with.                                *)
(***************************************************************************)
Ids == {"id1", "id2", "id3"}
Links == {"", "u1"}
PubDates == {T0 - OneHour - 1, T0 - OneHour, T0}
Categories == {"AI_MODELS", "AI_IDE"}
SourceNames == {"AINOW", "Qiita"}

\* the items the StorageService is called with
NewsItem == [id : Ids, link : Links, pubDate : PubDates,
             category : {"AI_MODELS"}, source : {"AINOW"}]

\* Partial<NewsItem>: every field is either absent or holds a value of its type.
Absent == "absent"
AbsentDate == 0 - 1
Partial == [id : Ids \cup {Absent}, link : Links \cup {Absent},
            pubDate : PubDates \cup {AbsentDate},
            category : Categories \cup {Absent},
            source : SourceNames \cup {Absent}]
NoUpdates == [id |-> Absent, link |-> Absent, pubDate |-> AbsentDate,
              category |-> Absent, source |-> Absent]
\* the partials updateNewsItem is called with: one field, or id and pubDate
PartialNewsItem ==
    {NoUpdates}
    \cup {[NoUpdates EXCEPT !.id = "id1"]}
    \cup {[NoUpdates EXCEPT !.link = l] : l \in Links}
    \cup {[NoUpdates EXCEPT !.pubDate = d] : d \in PubDates}
    \cup {[NoUpdates EXCEPT !.id = "id1", !.pubDate = T0]}
IsPresent(updates, f) ==
    IF f \in {"pubDate", "createdAt"} THEN updates[f] # AbsentDate
    ELSE updates[f] # Absent

(***************************************************************************)
(* The Map<string, NewsItem>.                                              *)
(***************************************************************************)
MapHas(m, k) == \E i \in 1..Len(m) : m[i].key = k
MapIndex(m, k) == CHOOSE i \in 1..Len(m) : m[i].key = k
MapGet(m, k) == IF MapHas(m, k) THEN m[MapIndex(m, k)].item ELSE Undefined
\* set keeps the position of a key already present and appends a new key
MapSet(m, k, v) ==
    IF MapHas(m, k)
    THEN [m EXCEPT ![MapIndex(m, k)] = [key |-> k, item |-> v]]
    ELSE Append(m, [key |-> k, item |-> v])
IsNotKey(e, k) == e.key # k
MapDelete(m, k) == SelectSeq(m, LAMBDA e : IsNotKey(e, k))
MapKeys(m) == {m[i].key : i \in 1..Len(m)}

(***************************************************************************)
(* StorageService, private helpers.                                        *)
(***************************************************************************)
\* isDuplicate without the check by id
isDuplicateByLinkOnly(m, newsItem) ==
    \E i \in 1..Len(m) :
        /\ m[i].item.link = newsItem.link
        /\ Abs(m[i].item.pubDate - newsItem.pubDate) <= OneHour

\* isDuplicate without the check by link and publication date
isDuplicateByIdOnly(m, newsItem) == MapHas(m, newsItem.id)

\* isDuplicate with timeDiff < oneHour
isDuplicateStrictWindow(m, newsItem) ==
    \/ MapHas(m, newsItem.id)
    \/ \E i \in 1..Len(m) :
          /\ m[i].item.link = newsItem.link
          /\ Abs(m[i].item.pubDate - newsItem.pubDate) < OneHour

isDuplicate(m, newsItem) ==
    \/ MapHas(m, newsItem.id)
    \/ \E i \in 1..Len(m) :
          /\ m[i].item.link = newsItem.link
          /\ Abs(m[i].item.pubDate - newsItem.pubDate) <= OneHour

cutoffDate(clock, days) == clock - days * DayMs

\* cleanupOldItems that steps over the entry following one it deleted
RECURSIVE cleanupSkippingAfterDelete(_, _, _)
cleanupSkippingAfterDelete(m, clock, days) ==
    IF m = <<>> THEN <<>>
    ELSE IF Head(m).item.pubDate < clock - days * DayMs
         THEN IF Len(m) = 1 THEN <<>>
              ELSE <<m[2]>> \o cleanupSkippingAfterDelete(SubSeq(m, 3, Len(m)), clock, days)
         ELSE <<Head(m)>> \o cleanupSkippingAfterDelete(Tail(m), clock, days)

cleanupOldItems(m, clock, days) ==
    SelectSeq(m, LAMBDA e : ~(e.item.pubDate < cutoffDate(clock, days)))

\* Array.prototype.sort with the comparator a.pubDate - b.pubDate: a stable
\* sort, here by insertion from the left.
RECURSIVE InsertByPubDate(_, _)
InsertByPubDate(sorted, e) ==
    IF sorted = <<>> THEN <<e>>
    ELSE IF Head(sorted).item.pubDate - e.item.pubDate > 0
         THEN <<e>> \o sorted
         ELSE <<Head(sorted)>> \o InsertByPubDate(Tail(sorted), e)

\* a sort that is not stable: of two entries of equal pubDate the later comes first
RECURSIVE InsertBeforeEqual(_, _)
InsertBeforeEqual(sorted, e) ==
    IF sorted = <<>> THEN <<e>>
    ELSE IF Head(sorted).item.pubDate - e.item.pubDate >= 0
         THEN <<e>> \o sorted
         ELSE <<Head(sorted)>> \o InsertBeforeEqual(Tail(sorted), e)

RECURSIVE SortByPubDateUnstable(_)
SortByPubDateUnstable(m) ==
    IF m = <<>> THEN <<>>
    ELSE InsertBeforeEqual(SortByPubDateUnstable(SubSeq(m, 1, Len(m) - 1)), m[Len(m)])

RECURSIVE SortByPubDate(_)
SortByPubDate(m) ==
    IF m = <<>> THEN <<>>
    ELSE InsertByPubDate(SortByPubDate(SubSeq(m, 1, Len(m) - 1)), m[Len(m)])

\* enforceMemoryLimit with size >= maxItems + 2 for size > maxItems
RECURSIVE enforceMemoryLimitOffByOne(_, _)
enforceMemoryLimitOffByOne(m, limit) ==
    IF Len(m) > limit + 1
    THEN enforceMemoryLimitOffByOne(MapDelete(m, SortByPubDate(m)[1].key), limit)
    ELSE m

RECURSIVE enforceMemoryLimit(_, _)
enforceMemoryLimit(m, limit) ==
    IF Len(m) > limit
    THEN LET items == SortByPubDate(m)
         IN  IF Len(items) > 0
             THEN enforceMemoryLimit(MapDelete(m, items[1].key), limit)
             ELSE m
    ELSE m

(***************************************************************************)
(* StorageService, public API.  Each returns the store after the call and  *)
(* the value returned.                                                     *)
(***************************************************************************)
\* saveNewsItem returning true only when the item is still stored at the end
saveNewsItemTrueWhenKept(m, newsItem, clock, limit, days) ==
    IF isDuplicate(m, newsItem)
    THEN [store |-> m, ret |-> FALSE]
    ELSE LET kept == enforceMemoryLimit(
                        cleanupOldItems(MapSet(m, newsItem.id, newsItem), clock, days),
                        limit)
         IN  [store |-> kept, ret |-> MapHas(kept, newsItem.id)]

saveNewsItem(m, newsItem, clock, limit, days) ==
    IF isDuplicate(m, newsItem)
    THEN [store |-> m, ret |-> FALSE]
    ELSE [store |-> enforceMemoryLimit(
                        cleanupOldItems(MapSet(m, newsItem.id, newsItem), clock, days),
                        limit),
          ret |-> TRUE]

\* saveNewsItems counting every item of the batch
RECURSIVE saveNewsItemsCountingAll(_, _, _, _, _)
saveNewsItemsCountingAll(m, items, clock, limit, days) ==
    IF items = <<>> THEN [store |-> m, ret |-> 0]
    ELSE LET first == saveNewsItem(m, Head(items), clock, limit, days)
             rest == saveNewsItemsCountingAll(first.store, Tail(items), clock, limit, days)
         IN  [store |-> rest.store, ret |-> rest.ret + 1]

RECURSIVE saveNewsItems(_, _, _, _, _)
saveNewsItems(m, items, clock, limit, days) ==
    IF items = <<>> THEN [store |-> m, ret |-> 0]
    ELSE LET first == saveNewsItem(m, Head(items), clock, limit, days)
             rest == saveNewsItems(first.store, Tail(items), clock, limit, days)
         IN  [store |-> rest.store,
              ret |-> rest.ret + (IF first.ret THEN 1 ELSE 0)]

getNewsItem(m, id) == MapGet(m, id)

\* { ...existingItem, ...updates }
Spread(existingItem, updates) ==
    [f \in DOMAIN existingItem |->
        IF IsPresent(updates, f) THEN updates[f] ELSE existingItem[f]]

\* updateNewsItem storing the updates also under an id that is not stored
updateNewsItemUpserting(m, id, updates) ==
    IF ~MapHas(m, id)
    THEN [store |-> Append(m, [key |-> id, item |-> updates]), ret |-> TRUE]
    ELSE [store |-> MapSet(m, id, Spread(MapGet(m, id), updates)), ret |-> TRUE]

updateNewsItem(m, id, updates) ==
    IF ~MapHas(m, id)
    THEN [store |-> m, ret |-> FALSE]
    ELSE [store |-> MapSet(m, id, Spread(MapGet(m, id), updates)), ret |-> TRUE]

deleteNewsItem(m, id) ==
    [store |-> MapDelete(m, id), ret |-> MapHas(m, id)]

\* Array.prototype.slice(start, end) on a sequence (indices from 0, negative
\* ones counted from the end)
SliceIndex(len, k) ==
    IF k < 0 THEN (IF len + k < 0 THEN 0 ELSE len + k)
    ELSE (IF k > len THEN len ELSE k)
Slice(seq, start, end) ==
    LET from == SliceIndex(Len(seq), start)
        to == SliceIndex(Len(seq), end)
    IN  IF from < to THEN SubSeq(seq, from + 1, to) ELSE <<>>

\* Array.prototype.sort with the comparator b.pubDate - a.pubDate (stable)
RECURSIVE InsertNewestFirst(_, _)
InsertNewestFirst(sorted, it) ==
    IF sorted = <<>> THEN <<it>>
    ELSE IF it.pubDate - Head(sorted).pubDate > 0
         THEN <<it>> \o sorted
         ELSE <<Head(sorted)>> \o InsertNewestFirst(Tail(sorted), it)

RECURSIVE SortNewestFirst(_)
SortNewestFirst(items) ==
    IF items = <<>> THEN <<>>
    ELSE InsertNewestFirst(SortNewestFirst(SubSeq(items, 1, Len(items) - 1)),
                           items[Len(items)])

\* StorageFilterOptions: an optional field is <<>> (not given) or <<value>>
NoOptions == [category |-> <<>>, startDate |-> <<>>, endDate |-> <<>>,
              source |-> <<>>, limit |-> <<>>, offset |-> <<>>]
Given(opt) == opt # <<>>
\* what JavaScript takes for true in if (x)
TruthyString(opt) == Given(opt) /\ opt[1] # ""
TruthyNumber(opt) == Given(opt) /\ opt[1] # 0

MapValues(m) == [i \in 1..Len(m) |-> m[i].item]

getNewsItems(m, options) ==
    LET all == MapValues(m)
        byCategory ==
            IF TruthyString(options.category) /\ options.category[1] # "all"
            THEN SelectSeq(all, LAMBDA it : it.category = options.category[1])
            ELSE all
        byStart ==
            IF Given(options.startDate)
            THEN SelectSeq(byCategory, LAMBDA it : it.pubDate >= options.startDate[1])
            ELSE byCategory
        byEnd ==
            IF Given(options.endDate)
            THEN SelectSeq(byStart, LAMBDA it : it.pubDate <= options.endDate[1])
            ELSE byStart
        bySource ==
            IF TruthyString(options.source)
            THEN SelectSeq(byEnd, LAMBDA it : it.source = options.source[1])
            ELSE byEnd
        sorted == SortNewestFirst(bySource)
        afterOffset ==
            IF TruthyNumber(options.offset)
            THEN Slice(sorted, options.offset[1], Len(sorted))
            ELSE sorted
    IN  IF TruthyNumber(options.limit)
        THEN Slice(afterOffset, 0, options.limit[1])
        ELSE afterOffset

getItemCount(m) == Len(m)

clear(m) == <<>>

(***************************************************************************)
(* SpecStore: a StorageService built with any maxItems in 0..MaxCap and    *)
(* maxAgeInDays in MaxAges, under any sequence of calls of its API, the    *)
(* clock moving between the calls.                                         *)
(***************************************************************************)
MaxAges == {1}
Clocks == {T0, T0 + DayMs - OneHour}

\* lastOp: the call (op, the id it was about) and its return value (ret for a
\* boolean, count for a number)
OpRecord(op, id, ret, count) == [op |-> op, id |-> id, ret |-> ret, count |-> count]

BatchItems ==
    {[id |-> "id1", link |-> "u1", pubDate |-> T0,
      category |-> "AI_MODELS", source |-> "AINOW"],
     [id |-> "id2", link |-> "u1", pubDate |-> T0 - OneHour - 1,
      category |-> "AI_MODELS", source |-> "AINOW"],
     [id |-> "id2", link |-> "", pubDate |-> T0,
      category |-> "AI_MODELS", source |-> "AINOW"]}
Batches == UNION {[1..n -> BatchItems] : n \in 0..MaxBatch}

\* the categories, in the order of the keys of the keyword dictionary
AICategory ==
    <<"AI_MODELS", "AI_ASSISTANT", "AI_AGENT", "AI_IDE", "AI_CLI", "AI_SEARCH",
      "AI_INTEGRATION", "AI_MULTIMODAL", "AI_NOCODE", "AI_DATA_ANALYSIS">>
CategorySet == {AICategory[i] : i \in DOMAIN AICategory}
DefaultThresholdTenths == 1
NoCall == [op |-> "new"]

\* the ClassificationService as its field initialisers leave it; a Map without
\* an entry is a count of 0
ClassifierBuilt ==
    /\ defaultCategory = "AI_MODELS"
    /\ minConfidenceThreshold = DefaultThresholdTenths
    /\ classificationStats = [c \in CategorySet |-> 0]
    /\ lastCall = NoCall
    /\ earlier = NoCall

\* the SchedulerService is not part of SpecStore and SpecCollector
SchedulerIdle ==
    /\ ClassifierBuilt
    /\ isRunning = FALSE
    /\ stats = Null
    /\ runDurations = <<>>
    /\ task = 0
    /\ timers = <<>>
    /\ pc = <<>>
    /\ runOf = <<>>
    /\ result = <<>>
    /\ runsLeft = 0

InitStore ==
    /\ newsItems = <<>>
    /\ maxItems \in 0..MaxCap
    /\ maxAgeInDays \in MaxAges
    /\ now = T0
    /\ lastOp = OpRecord("new", "", TRUE, 0)
    /\ fetch = <<>>
    /\ collected = [status |-> "idle", value |-> <<>>]
    /\ SchedulerIdle

StoreFrame == UNCHANGED <<maxItems, maxAgeInDays, now, collectorVars, schedVars, classifierVars>>

Save(newsItem) ==
    LET r == saveNewsItem(newsItems, newsItem, now, maxItems, maxAgeInDays)
    IN  /\ newsItems' = r.store
        /\ lastOp' = OpRecord("save", newsItem.id, r.ret, 0)
        /\ StoreFrame

SaveAll(items) ==
    LET r == saveNewsItems(newsItems, items, now, maxItems, maxAgeInDays)
    IN  /\ newsItems' = r.store
        /\ lastOp' = OpRecord("saveAll", "", TRUE, r.ret)
        /\ StoreFrame

Update(id, updates) ==
    LET r == updateNewsItem(newsItems, id, updates)
    IN  /\ newsItems' = r.store
        /\ lastOp' = OpRecord("update", id, r.ret, 0)
        /\ StoreFrame

Delete(id) ==
    LET r == deleteNewsItem(newsItems, id)
    IN  /\ newsItems' = r.store
        /\ lastOp' = OpRecord("delete", id, r.ret, 0)
        /\ StoreFrame

Clear ==
    /\ newsItems' = clear(newsItems)
    /\ lastOp' = OpRecord("clear", "", TRUE, 0)
    /\ StoreFrame

\* time passes between two calls
Advance ==
    /\ \E t \in Clocks : t > now /\ now' = t
    /\ lastOp' = OpRecord("advance", "", TRUE, 0)
    /\ UNCHANGED <<newsItems, maxItems, maxAgeInDays, collectorVars, schedVars, classifierVars>>

NextStore ==
    \/ \E n \in NewsItem : Save(n)
    \/ \E items \in Batches : SaveAll(items)
    \/ \E id \in Ids, u \in PartialNewsItem : Update(id, u)
    \/ \E id \in Ids : Delete(id)
    \/ Clear
    \/ Advance

SpecStore == InitStore /\ [][NextStore]_vars

\* the same store under the calls that take one item or one id
NextEdit ==
    \/ \E n \in NewsItem : Save(n)
    \/ \E id \in Ids, u \in PartialNewsItem : Update(id, u)
    \/ \E id \in Ids : Delete(id)
    \/ Clear
    \/ Advance

SpecEdit == InitStore /\ [][NextEdit]_vars

(***************************************************************************)
(* NewsCollectorService.                                                   *)
(***************************************************************************)
AllSources ==
    << [name |-> "AINOW", url |-> "https://ainow.ai/feed/",
        defaultCategory |-> "AI_MODELS"],
       [name |-> "Publickey", url |-> "https://www.publickey1.jp/atom.xml",
        defaultCategory |-> "AI_DATA_ANALYSIS"],
       [name |-> "ITmedia NEWS", url |-> "https://rss.itmedia.co.jp/rss/2.0/news_bursts.xml",
        defaultCategory |-> "AI_ASSISTANT"] >>
RSS_SOURCES == SubSeq(AllSources, 1, NumSources)
SourceIndex == 1..Len(RSS_SOURCES)

maxRetries == 3
retryDelay == 1000

\* What the feed parser hands over for one item.  A field the feed does not
\* give is Absent; a pubDate string that Date cannot parse is InvalidDate.
InvalidDate == 0 - 2
RawGood == [link |-> "u1", pubDate |-> T0]
RawBare == [link |-> Absent, pubDate |-> AbsentDate]
RawBadDate == [link |-> "u1", pubDate |-> InvalidDate]
\* the outcomes of parser.parseURL: a feed's items, or an error message
Feeds == {<<>>, <<RawGood, RawBare>>, <<RawGood, RawBadDate>>}
\* an Error message is the sequence of the pieces it is put together from
ParserErrors == {<<"ETIMEDOUT">>}
Responses == [ok : {TRUE}, items : Feeds] \cup [ok : {FALSE}, message : ParserErrors]

\* md5(link + pubDate.toISOString()): the digest stands for the string hashed
\* (no two strings of the model collide)
toISOString(date) == <<"ISO", date>>
generateNewsId(link, pubDate) == <<"md5", link, toISOString(pubDate)>>

\* convertToNewsItem; toISOString throws a RangeError on an invalid Date
ConvertThrows(rssItem) == rssItem.pubDate = InvalidDate
\* convertToNewsItem taking rssItem.link as it is given
convertToNewsItemLinkAsGiven(rssItem, source, clock) ==
    LET link == rssItem.link
        pubDate == IF rssItem.pubDate = AbsentDate THEN clock ELSE rssItem.pubDate
    IN  [id |-> generateNewsId(link, pubDate), link |-> link, pubDate |-> pubDate,
         category |-> source.defaultCategory, source |-> source.name]

convertToNewsItem(rssItem, source, clock) ==
    LET link == IF rssItem.link = Absent THEN "" ELSE rssItem.link
        pubDate == IF rssItem.pubDate = AbsentDate THEN clock ELSE rssItem.pubDate
    IN  [id |-> generateNewsId(link, pubDate), link |-> link, pubDate |-> pubDate,
         category |-> source.defaultCategory, source |-> source.name]

\* parseRSSFeed then collectFromSource, on one response of the parser: the
\* items converted, or the Error thrown
collectFromSource(response, source, clock) ==
    IF ~response.ok
    THEN [ok |-> FALSE,
          message |-> <<"Failed to collect from", source.name, ":">>
                        \o <<"Failed to parse RSS feed from", source.url, ":">>
                        \o response.message]
    ELSE IF \E i \in 1..Len(response.items) : ConvertThrows(response.items[i])
         THEN [ok |-> FALSE,
               message |-> <<"Failed to collect from", source.name, ":">>
                             \o <<"Invalid time value">>]
         ELSE [ok |-> TRUE,
               value |-> [i \in 1..Len(response.items) |->
                             convertToNewsItem(response.items[i], source, clock)]]

\* the Error collectFromSourceWithRetry throws after the last attempt
RetryError(source, lastMessage) ==
    <<"Failed to collect from", source.name, "after 3 attempts. Last error:">>
        \o lastMessage

\* fetch[i]: the promise of collectFromSourceWithRetry(RSS_SOURCES[i]).
\*   status    "trying" (awaiting the parser), "waiting" (awaiting delay),
\*             "fulfilled", "rejected"
\*   attempt   the loop variable
\*   tried     the responses the parser gave to the attempts so far
\*   delays    the delays awaited so far
\*   lastError, value, reason
\*   settledAs the place of the promise in the order of settlement (0: not yet)
FetchStart ==
    [status |-> "trying", attempt |-> 1, tried |-> <<>>, delays |-> <<>>,
     lastError |-> <<>>, value |-> <<>>, reason |-> <<>>, settledAs |-> 0]

\* the loop of collectFromSourceWithRetry with attempt <= maxRetries + 1
AfterAttemptOneMore(f, response, source, clock) ==
    LET r == collectFromSource(response, source, clock)
        tried == Append(f.tried, response)
    IN  IF r.ok
        THEN [f EXCEPT !.status = "fulfilled", !.tried = tried, !.value = r.value]
        ELSE IF f.attempt < maxRetries + 1
             THEN [f EXCEPT !.status = "waiting", !.tried = tried,
                            !.lastError = r.message,
                            !.delays = Append(@, retryDelay * f.attempt)]
             ELSE [f EXCEPT !.status = "rejected", !.tried = tried,
                            !.lastError = r.message,
                            !.attempt = @ + 1,
                            !.reason = RetryError(source, r.message)]

\* one pass of the try/catch in the loop of collectFromSourceWithRetry, when the
\* parser has answered the attempt (the loop variable is maxRetries + 1 when
\* the loop is left)
AfterAttempt(f, response, source, clock) ==
    LET r == collectFromSource(response, source, clock)
        tried == Append(f.tried, response)
    IN  IF r.ok
        THEN [f EXCEPT !.status = "fulfilled", !.tried = tried, !.value = r.value]
        ELSE IF f.attempt < maxRetries
             THEN [f EXCEPT !.status = "waiting", !.tried = tried,
                            !.lastError = r.message,
                            !.delays = Append(@, retryDelay * f.attempt)]
             ELSE [f EXCEPT !.status = "rejected", !.tried = tried,
                            !.lastError = r.message,
                            !.attempt = @ + 1,
                            !.reason = RetryError(source, r.message)]

\* results.forEach pushing in the order in which the promises settled
RECURSIVE allNewsAsSettled(_, _)
allNewsAsSettled(fetches, n) ==
    IF n = 0 THEN <<>>
    ELSE LET i == CHOOSE j \in DOMAIN fetches : fetches[j].settledAs = n
         IN  allNewsAsSettled(fetches, n - 1)
               \o (IF fetches[i].status = "fulfilled" THEN fetches[i].value ELSE <<>>)

\* results.forEach: push the value of each fulfilled result, in index order
RECURSIVE allNews(_, _)
allNews(fetches, n) ==
    IF n = 0 THEN <<>>
    ELSE allNews(fetches, n - 1)
           \o (IF fetches[n].status = "fulfilled" THEN fetches[n].value ELSE <<>>)

\* collectFromAllSources with Promise.all for Promise.allSettled
collectWithPromiseAll(fetches) ==
    IF \E i \in DOMAIN fetches : fetches[i].status = "rejected"
    THEN [status |-> "rejected", value |-> <<>>]
    ELSE [status |-> "fulfilled", value |-> allNews(fetches, Len(fetches))]

\* what collectFromAllSources settles with once Promise.allSettled has resolved
collectFromAllSources(fetches) ==
    [status |-> "fulfilled", value |-> allNews(fetches, Len(fetches))]

Settled(f) == f.status \in {"fulfilled", "rejected"}
\* the promise f takes its place after the promises of fetches settled before it
Stamp(f, fetches) ==
    IF Settled(f)
    THEN [f EXCEPT !.settledAs =
                      Cardinality({j \in DOMAIN fetches : Settled(fetches[j])}) + 1]
    ELSE f

(***************************************************************************)
(* SpecCollector: one call of collectFromAllSources, the parser answering  *)
(* each attempt with any feed or error.                                    *)
(***************************************************************************)
InitCollector ==
    /\ newsItems = <<>>
    /\ maxItems = 0
    /\ maxAgeInDays = 1
    /\ now = T0
    /\ lastOp = OpRecord("new", "", TRUE, 0)
    /\ fetch = <<>>
    /\ collected = [status |-> "idle", value |-> <<>>]
    /\ SchedulerIdle

CollectorFrame == UNCHANGED <<storeVars, schedVars, classifierVars>>

\* collectFromAllSources is called: every source's first attempt is started
CollectCall ==
    /\ collected.status = "idle"
    /\ fetch' = [i \in SourceIndex |-> FetchStart]
    /\ collected' = [status |-> "pending", value |-> <<>>]
    /\ CollectorFrame

\* the parser answers the attempt source i is waiting for
AttemptAnswered(i, response) ==
    /\ collected.status = "pending"
    /\ fetch[i].status = "trying"
    /\ fetch' = [fetch EXCEPT
                    ![i] = Stamp(AfterAttempt(@, response, RSS_SOURCES[i], now), fetch)]
    /\ UNCHANGED collected
    /\ CollectorFrame

\* the delay before the next attempt of source i is over
DelayElapsed(i) ==
    /\ collected.status = "pending"
    /\ fetch[i].status = "waiting"
    /\ fetch' = [fetch EXCEPT ![i].status = "trying", ![i].attempt = @ + 1]
    /\ UNCHANGED collected
    /\ CollectorFrame

\* collectFromAllSources going on as soon as one promise has settled
AllSettledAtFirst ==
    /\ collected.status = "pending"
    /\ \E i \in SourceIndex : Settled(fetch[i])
    /\ collected' = collectFromAllSources(fetch)
    /\ UNCHANGED fetch
    /\ CollectorFrame

\* every promise has settled: collectFromAllSources goes on after its await
AllSettled ==
    /\ collected.status = "pending"
    /\ \A i \in SourceIndex : Settled(fetch[i])
    /\ collected' = collectFromAllSources(fetch)
    /\ UNCHANGED fetch
    /\ CollectorFrame

NextCollector ==
    \/ CollectCall
    \/ \E i \in SourceIndex, response \in Responses : AttemptAnswered(i, response)
    \/ \E i \in SourceIndex : DelayElapsed(i)
    \/ AllSettled

SpecCollector == InitCollector /\ [][NextCollector]_vars

(***************************************************************************)
(* Properties of the NewsCollectorService (checked under SpecCollector).   *)
(***************************************************************************)
\* an attempt succeeds when the parser gives a feed every item of which converts
AttemptSucceeds(response) ==
    /\ response.ok
    /\ \A j \in 1..Len(response.items) : response.items[j].pubDate # InvalidDate
\* the message of the failure underlying a failed attempt
UnderlyingMessage(response) ==
    IF response.ok THEN <<"Invalid time value">> ELSE response.message
IsSuffix(t, seq) ==
    /\ Len(t) <= Len(seq)
    /\ SubSeq(seq, Len(seq) - Len(t) + 1, Len(seq)) = t
Contains(seq, x) == \E k \in 1..Len(seq) : seq[k] = x

\* C9: fetching one source makes at most 3 attempts, makes none after an attempt
\* succeeded and resolves with that attempt's records, all of them; it is
\* rejected only after 3 failed attempts, with an error that names the source and
\* ends with the message of the last failure, and then it has no records.
C9_RetryUntilFirstSuccess ==
    \A i \in DOMAIN fetch :
        LET f == fetch[i]
            n == Len(f.tried)
        IN  /\ n <= 3
            /\ \A k \in 1..(n - 1) : ~AttemptSucceeds(f.tried[k])
            /\ f.status = "fulfilled"
                  => /\ n >= 1 /\ AttemptSucceeds(f.tried[n])
                     /\ Len(f.value) = Len(f.tried[n].items)
                     /\ \A j \in 1..Len(f.value) :
                           /\ f.value[j].source = RSS_SOURCES[i].name
                           /\ f.value[j].link \in {f.tried[n].items[j].link, ""}
            /\ f.status = "rejected"
                  => /\ n = 3 /\ ~AttemptSucceeds(f.tried[n])
                     /\ Contains(f.reason, RSS_SOURCES[i].name)
                     /\ IsSuffix(UnderlyingMessage(f.tried[n]), f.reason)
            /\ f.status # "fulfilled" => f.value = <<>>
            /\ f.status \in {"trying", "waiting"} => n < 3

\* C9 witness: one source resolved with its records at its third attempt and
\* another was rejected after three failures
C9_Witness ==
    \E i, j \in DOMAIN fetch :
        /\ fetch[i].status = "fulfilled" /\ Len(fetch[i].tried) = 3
        /\ fetch[i].value # <<>>
        /\ fetch[j].status = "rejected"

\* C30: the fetch of a source has waited attempt k x retryDelay after its
\* failed attempt k, for k = 1 and 2 (1000 ms, then 2000 ms), and at no other
\* time: not before the first attempt, not after an attempt that succeeded and
\* not after the third failed attempt.
C30_DelayGrowsWithAttempt ==
    \A i \in DOMAIN fetch :
        LET f == fetch[i]
            n == Len(f.tried)
            failures == Cardinality({k \in 1..n : ~AttemptSucceeds(f.tried[k])})
        IN  /\ Len(f.delays) <= 2
            /\ \A k \in 1..Len(f.delays) :
                  f.delays[k] = k * retryDelay /\ f.delays[k] = <<1000, 2000>>[k]
            /\ n = 0 => f.delays = <<>>
            /\ Len(f.delays) = IF failures < maxRetries THEN failures ELSE maxRetries - 1
            /\ f.status = "waiting" <=> (f.attempt = Len(f.delays) /\ f.attempt = n)
            /\ f.status = "trying" => f.attempt = Len(f.delays) + 1
            /\ f.status = "rejected" => f.delays = <<1000, 2000>>

\* C30 witness: one source was given up after waiting 1000 ms and 2000 ms and
\* another delivered at its second attempt after waiting 1000 ms
C30_Witness ==
    \E i, j \in DOMAIN fetch :
        /\ fetch[i].status = "rejected" /\ fetch[i].delays = <<1000, 2000>>
        /\ fetch[j].status = "fulfilled" /\ fetch[j].delays = <<1000>>

\* C10: collectFromAllSources never rejects; it resolves with the records of the
\* sources whose fetch succeeded (each of them once) and none of a source that
\* failed, and with the empty list when every source failed.
C10_PartialFailureTolerated ==
    /\ collected.status \in {"idle", "pending", "fulfilled"}
    /\ collected.status = "fulfilled"
          => LET ok == {i \in DOMAIN fetch : fetch[i].status = "fulfilled"}
                 failed == {i \in DOMAIN fetch : fetch[i].status = "rejected"}
             IN  /\ ok \cup failed = DOMAIN fetch
                 /\ \A i \in ok : \A j \in 1..Len(fetch[i].value) :
                       Contains(collected.value, fetch[i].value[j])
                 /\ \A i \in ok :
                       Cardinality({k \in 1..Len(collected.value) :
                                       collected.value[k].source = RSS_SOURCES[i].name})
                          = Len(fetch[i].value)
                 /\ \A k \in 1..Len(collected.value) :
                       \E i \in ok : collected.value[k].source = RSS_SOURCES[i].name
                 /\ \A i \in failed : \A k \in 1..Len(collected.value) :
                       collected.value[k].source # RSS_SOURCES[i].name
                 /\ ok = {} => collected.value = <<>>

\* C10 witness: the call resolved with records although a source had failed
C10_Witness ==
    /\ collected.status = "fulfilled" /\ collected.value # <<>>
    /\ \E i \in DOMAIN fetch : fetch[i].status = "rejected"

\* the number of records the successful sources before source i have given
RECURSIVE RecordsBefore(_)
RecordsBefore(i) ==
    IF i = 1 THEN 0
    ELSE RecordsBefore(i - 1)
           + (IF fetch[i - 1].status = "fulfilled"
              THEN Len(fetch[i - 1].tried[Len(fetch[i - 1].tried)].items) ELSE 0)

\* C11: the list collectFromAllSources resolves with is the records of the
\* successful sources, source after source in the order of RSS_SOURCES and
\* within a source in the order of its feed, in whatever order the fetches and
\* their retries were answered.
C11_ConfigurationOrder ==
    collected.status = "fulfilled"
        => /\ Len(collected.value) = RecordsBefore(Len(fetch) + 1)
           /\ \A i \in DOMAIN fetch :
                 fetch[i].status = "fulfilled"
                     => LET feed == fetch[i].tried[Len(fetch[i].tried)].items
                        IN  \A k \in 1..Len(feed) :
                              collected.value[RecordsBefore(i) + k]
                                  = convertToNewsItem(feed[k], RSS_SOURCES[i], now)

\* C11 witness: two sources gave two different records each, and the later one
\* in RSS_SOURCES settled first, at its first attempt, the earlier one at a retry
C11_Witness ==
    /\ collected.status = "fulfilled"
    /\ \E i, j \in DOMAIN fetch :
          /\ i < j /\ fetch[j].settledAs < fetch[i].settledAs
          /\ fetch[i].status = "fulfilled" /\ fetch[j].status = "fulfilled"
          /\ Len(fetch[i].tried) > 1 /\ Len(fetch[j].tried) = 1
          /\ Len(fetch[i].value) = 2 /\ fetch[i].value[1] # fetch[i].value[2]
          /\ Len(fetch[j].value) = 2

(***************************************************************************)
(* SchedulerService.                                                       *)
(*                                                                         *)
(* executeCollection is an async function: it runs without interruption    *)
(* from one await to the next, and anything else may run at an await.      *)
(* pc[c] is where caller c's invocation stands:                            *)
(*   "idle"        no run of c in flight                                   *)
(*   "collecting"  at await measurePerformance('rss_collection')           *)
(*   "classified"  at await measurePerformance('news_classification')      *)
(*   "saved"       at await measurePerformance('storage_save')             *)
(* The collector, the classifier and the storage are constructor           *)
(* arguments; the collector and the storage are the services above, the    *)
(* classifier gives each item some category, and any of them may throw.    *)
(***************************************************************************)
Callers == {"timer", "manual1", "manual2"}
ManualCallers == {"manual1", "manual2"}
maxDurationHistory == 10
DefaultMaxItems == 1000
DefaultMaxAgeInDays == 7
TickMs == 60 * 1000
NoTask == 0

InitialStats ==
    [lastRun |-> 0 - 1, totalRuns |-> 0, successfulRuns |-> 0, failedRuns |-> 0,
     totalItemsCollected |-> 0, lastRunDuration |-> 0,
     averageRunDuration |-> [sum |-> 0, count |-> 1], isRunning |-> FALSE]
NoRun == [startTime |-> 0, batch |-> <<>>, savedCount |-> 0]
NoResult == [success |-> FALSE, itemsCollected |-> 0, duration |-> 0, error |-> "none yet"]
AlreadyRunning ==
    [success |-> FALSE, itemsCollected |-> 0, duration |-> 0,
     error |-> "Collection already in progress"]
NoError == "undefined"
StageErrors == {"collaborator threw"}

RECURSIVE SumSeq(_)
SumSeq(seq) == IF seq = <<>> THEN 0 ELSE Head(seq) + SumSeq(Tail(seq))

\* completeCollection: the statistics, the duration history and the result
completeCollection(st, durations, startTime, clock, success, itemsCollected, error) ==
    LET duration == clock - startTime
        pushed == Append(durations, duration)
        history == IF Len(pushed) > maxDurationHistory THEN Tail(pushed) ELSE pushed
    IN  [stats |-> [st EXCEPT
                      !.lastRun = clock,
                      !.lastRunDuration = duration,
                      !.isRunning = FALSE,
                      !.successfulRuns = IF success THEN @ + 1 ELSE @,
                      !.failedRuns = IF success THEN @ ELSE @ + 1,
                      !.averageRunDuration = [sum |-> SumSeq(history), count |-> Len(history)]],
         runDurations |-> history,
         result |-> [success |-> success, itemsCollected |-> itemsCollected,
                     duration |-> duration, error |-> error]]

\* the first lines of executeCollection without the isRunning test
executeCollectionUnguarded(running) == FALSE

\* the first lines of executeCollection: is the invocation turned away?
executeCollectionSkips(running) == running

\* what the collector resolves with when the last attempt of source i was
\* answered with finals[i]
SettledFetch(response, source, clock) ==
    LET r == collectFromSource(response, source, clock)
    IN  IF r.ok THEN [status |-> "fulfilled", value |-> r.value]
        ELSE [status |-> "rejected", value |-> <<>>]
FinalResponses ==
    [ok : {TRUE}, items : {<<>>, <<RawGood>>}] \cup [ok : {FALSE}, message : ParserErrors]
\* the lists the collector can resolve with
CollectorValues(clock) ==
    {collectFromAllSources(
        [i \in SourceIndex |-> SettledFetch(finals[i], RSS_SOURCES[i], clock)]).value :
            finals \in [SourceIndex -> FinalResponses]}
CollectorValue(finals, clock) ==
    collectFromAllSources(
        [i \in SourceIndex |-> SettledFetch(finals[i], RSS_SOURCES[i], clock)]).value

\* classifyNewsBatch: every item with its category replaced
classifyNewsBatch(batch, categories) ==
    [i \in 1..Len(batch) |-> [batch[i] EXCEPT !.category = categories[i]]]

\* the services as api/server.ts builds them; budget bounds the runs
SchedulerBuilt(budget) ==
    /\ newsItems = <<>>
    /\ maxItems = DefaultMaxItems
    /\ maxAgeInDays = DefaultMaxAgeInDays
    /\ now = T0
    /\ lastOp = OpRecord("new", "", TRUE, 0)
    /\ fetch = <<>>
    /\ collected = [status |-> "idle", value |-> <<>>]
    /\ isRunning = FALSE
    /\ stats = InitialStats
    /\ runDurations = <<>>
    /\ task = NoTask
    /\ timers = <<>>
    /\ pc = [c \in Callers |-> "idle"]
    /\ runOf = [c \in Callers |-> NoRun]
    /\ result = [c \in ManualCallers |-> NoResult]
    /\ runsLeft = budget
    /\ ClassifierBuilt

InitScheduler == SchedulerBuilt(MaxRuns)

StoreConfigFrame == UNCHANGED <<maxItems, maxAgeInDays, lastOp, collectorVars, classifierVars>>
NoFinish == UNCHANGED runsLeft

\* the value executeCollection returns reaches the caller of
\* executeCollectionManually; the cron callback drops it
Deliver(results, c, value) ==
    IF c \in ManualCallers THEN [results EXCEPT ![c] = value] ELSE results

\* executeCollection counting the run before it tests isRunning
ExecuteCountingFirst(c) ==
    IF executeCollectionSkips(isRunning)
    THEN /\ result' = Deliver(result, c, AlreadyRunning)
         /\ stats' = [stats EXCEPT !.totalRuns = @ + 1]
         /\ UNCHANGED <<isRunning, runDurations, pc, runOf, newsItems, now>>
    ELSE /\ pc[c] = "idle"
         /\ runsLeft > 0
         /\ isRunning' = TRUE
         /\ stats' = [stats EXCEPT !.totalRuns = @ + 1]
         /\ pc' = [pc EXCEPT ![c] = "collecting"]
         /\ runOf' = [runOf EXCEPT ![c] = [NoRun EXCEPT !.startTime = now]]
         /\ UNCHANGED <<runDurations, result, newsItems, now>>

\* executeCollection up to its first await, called by c
Execute(c) ==
    IF executeCollectionSkips(isRunning)
    THEN /\ result' = Deliver(result, c, AlreadyRunning)
         /\ UNCHANGED <<isRunning, stats, runDurations, pc, runOf, newsItems, now>>
    ELSE /\ pc[c] = "idle"
         /\ runsLeft > 0
         /\ isRunning' = TRUE
         /\ stats' = [stats EXCEPT !.totalRuns = @ + 1]
         /\ pc' = [pc EXCEPT ![c] = "collecting"]
         /\ runOf' = [runOf EXCEPT ![c] = [NoRun EXCEPT !.startTime = now]]
         /\ UNCHANGED <<runDurations, result, newsItems, now>>

\* executeCollectionManually
TriggerManually(c) ==
    /\ c \in ManualCallers
    /\ Execute(c)
    /\ UNCHANGED <<task, timers>>
    /\ NoFinish
    /\ StoreConfigFrame

\* the cron timer fires and runs its callback
TimerFires ==
    /\ \E h \in 1..Len(timers) : timers[h]
    /\ Execute("timer")
    /\ UNCHANGED <<task, timers>>
    /\ NoFinish
    /\ StoreConfigFrame

\* a run leaves through completeCollection
\* completeCollection leaving isRunning set
FinishStillRunning(c, success, itemsCollected, error) ==
    LET done == completeCollection(stats, runDurations, runOf[c].startTime, now,
                                   success, itemsCollected, error)
    IN  /\ stats' = done.stats
        /\ runDurations' = done.runDurations
        /\ isRunning' = TRUE
        /\ result' = Deliver(result, c, done.result)
        /\ pc' = [pc EXCEPT ![c] = "idle"]
        /\ runOf' = [runOf EXCEPT ![c] = NoRun]
        /\ runsLeft' = runsLeft - 1

Finish(c, success, itemsCollected, error) ==
    LET done == completeCollection(stats, runDurations, runOf[c].startTime, now,
                                   success, itemsCollected, error)
    IN  /\ stats' = done.stats
        /\ runDurations' = done.runDurations
        /\ isRunning' = FALSE
        /\ result' = Deliver(result, c, done.result)
        /\ pc' = [pc EXCEPT ![c] = "idle"]
        /\ runOf' = [runOf EXCEPT ![c] = NoRun]
        /\ runsLeft' = runsLeft - 1

\* executeCollection going on to classify whatever the collector resolved with
CollectorResolvesNoShortCut(c, collectedNews, categories) ==
    /\ pc[c] = "collecting"
    /\ Len(categories) = Len(collectedNews)
    /\ pc' = [pc EXCEPT ![c] = "classified"]
    /\ runOf' = [runOf EXCEPT
                    ![c].batch = classifyNewsBatch(collectedNews, categories)]
    /\ UNCHANGED <<isRunning, stats, runDurations, result, runsLeft>>
    /\ UNCHANGED <<newsItems, now, task, timers>>
    /\ StoreConfigFrame

\* the collector has resolved with collectedNews: nothing collected ends the
\* run, anything else is classified
CollectorResolves(c, collectedNews, categories) ==
    /\ pc[c] = "collecting"
    /\ IF Len(collectedNews) = 0
       THEN Finish(c, TRUE, 0, NoError)
       ELSE /\ Len(categories) = Len(collectedNews)
            /\ pc' = [pc EXCEPT ![c] = "classified"]
            /\ runOf' = [runOf EXCEPT
                            ![c].batch = classifyNewsBatch(collectedNews, categories)]
            /\ UNCHANGED <<isRunning, stats, runDurations, result, runsLeft>>
    /\ UNCHANGED <<newsItems, now, task, timers>>
    /\ StoreConfigFrame

\* the classification is over: the batch is saved
StorageSaves(c) ==
    /\ pc[c] = "classified"
    /\ LET r == saveNewsItems(newsItems, runOf[c].batch, now, maxItems, maxAgeInDays)
       IN  /\ newsItems' = r.store
           /\ runOf' = [runOf EXCEPT ![c].savedCount = r.ret]
    /\ pc' = [pc EXCEPT ![c] = "saved"]
    /\ UNCHANGED <<isRunning, stats, runDurations, result, now, task, timers>>
    /\ NoFinish
    /\ StoreConfigFrame

\* the save is over: the statistics are updated and the run completes
RunCompletes(c) ==
    /\ pc[c] = "saved"
    /\ LET savedCount == runOf[c].savedCount
           counted == [stats EXCEPT !.totalItemsCollected = @ + savedCount]
           done == completeCollection(counted, runDurations, runOf[c].startTime, now,
                                      TRUE, savedCount, NoError)
       IN  /\ stats' = done.stats
           /\ runDurations' = done.runDurations
           /\ result' = Deliver(result, c, done.result)
    /\ isRunning' = FALSE
    /\ pc' = [pc EXCEPT ![c] = "idle"]
    /\ runOf' = [runOf EXCEPT ![c] = NoRun]
    /\ UNCHANGED <<newsItems, now, task, timers>>
    /\ runsLeft' = runsLeft - 1
    /\ StoreConfigFrame

\* a step that follows the statistics update (the metrics log, getRSSSources,
\* getItemCount) throws: the run has completed as a success and the catch block
\* completes it once more as a failure
MetricsThrow(c, message) ==
    /\ pc[c] = "saved"
    /\ LET savedCount == runOf[c].savedCount
           counted == [stats EXCEPT !.totalItemsCollected = @ + savedCount]
           first == completeCollection(counted, runDurations, runOf[c].startTime, now,
                                       TRUE, savedCount, NoError)
           done == completeCollection(first.stats, first.runDurations,
                                      runOf[c].startTime, now, FALSE, 0, message)
       IN  /\ stats' = done.stats
           /\ runDurations' = done.runDurations
           /\ result' = Deliver(result, c, done.result)
    /\ isRunning' = FALSE
    /\ pc' = [pc EXCEPT ![c] = "idle"]
    /\ runOf' = [runOf EXCEPT ![c] = NoRun]
    /\ runsLeft' = runsLeft - 1
    /\ UNCHANGED <<newsItems, now, task, timers>>
    /\ StoreConfigFrame

\* the collector, the classifier or the storage throws, or a step between the
\* save and the statistics update does: the catch block
StageThrows(c, message) ==
    /\ pc[c] \in {"collecting", "classified", "saved"}
    /\ Finish(c, FALSE, 0, message)
    /\ UNCHANGED <<newsItems, now, task, timers>>
    /\ StoreConfigFrame

RunFrame == UNCHANGED <<isRunning, stats, runDurations, pc, runOf, result, newsItems>>

\* The timers of node-cron: timers[h] says whether the task created h-th fires,
\* and task is the one the scheduler holds (NoTask for null).
CronExpressions == {"valid", "invalid"}

\* stopScheduledCollection forgetting the task without stopping it
stopTaskLeavingTimer(ts, t) == [timers |-> ts, task |-> NoTask]

\* stopScheduledCollection on the timers and the task held
stopTask(ts, t) ==
    IF t # NoTask
    THEN [timers |-> [ts EXCEPT ![t] = FALSE], task |-> NoTask]
    ELSE [timers |-> ts, task |-> t]

\* startScheduledCollection scheduling beside the task it holds
scheduleTaskBesideOld(ts, t, autoStart, expression) ==
    IF expression = "valid"
    THEN [timers |-> Append(ts, autoStart), task |-> Len(ts) + 1]
    ELSE [timers |-> ts, task |-> t]

\* startScheduledCollection on the timers and the task held: the task held is
\* stopped first, and cron.schedule throws on an expression it cannot parse
scheduleTask(ts, t, autoStart, expression) ==
    LET stopped == IF t # NoTask THEN stopTask(ts, t) ELSE [timers |-> ts, task |-> t]
    IN  IF expression = "valid"
        THEN [timers |-> Append(stopped.timers, autoStart), task |-> Len(ts) + 1]
        ELSE stopped

TimerFrame ==
    /\ UNCHANGED now
    /\ RunFrame
    /\ NoFinish
    /\ StoreConfigFrame

startScheduledCollection(autoStart, expression) ==
    /\ Len(timers) < MaxTimers
    /\ LET started == scheduleTask(timers, task, autoStart, expression)
       IN  timers' = started.timers /\ task' = started.task
    /\ TimerFrame

\* stopScheduledCollection abandoning the run in flight
stopCancellingRun ==
    /\ LET stopped == stopTask(timers, task)
       IN  timers' = stopped.timers /\ task' = stopped.task
    /\ isRunning' = FALSE
    /\ pc' = [c \in Callers |-> "idle"]
    /\ runOf' = [c \in Callers |-> NoRun]
    /\ UNCHANGED <<stats, runDurations, result, newsItems, now>>
    /\ NoFinish
    /\ StoreConfigFrame

stopScheduledCollection ==
    /\ LET stopped == stopTask(timers, task)
       IN  timers' = stopped.timers /\ task' = stopped.task
    /\ TimerFrame

updateSchedulerConfig(autoStart, expression) ==
    /\ Len(timers) < MaxTimers
    /\ LET stopped == IF task # NoTask THEN stopTask(timers, task)
                      ELSE [timers |-> timers, task |-> task]
           started == scheduleTask(stopped.timers, stopped.task, autoStart, expression)
       IN  timers' = started.timers /\ task' = started.task
    /\ TimerFrame

\* Partial<SchedulerConfig>: a field is <<>> when the caller leaves it out,
\* and is given another value than the default when it does not.  The default
\* cron expression is one that cron.schedule accepts.
defaultConfig == [cronExpression |-> "valid", autoStart |-> TRUE, timezone |-> "Asia/Tokyo"]
PartialSchedulerConfig ==
    [cronExpression : {<<>>, <<"invalid">>},
     autoStart : {<<>>, <<FALSE>>},
     timezone : {<<>>}]

\* the configuration merged over the one of the task held
finalConfigOverActive(config) ==
    [f \in DOMAIN defaultConfig |->
        IF Given(config[f]) THEN config[f][1]
        ELSE IF f = "autoStart" /\ task # NoTask THEN timers[task]
        ELSE defaultConfig[f]]

\* { ...defaultConfig, ...config }
finalConfig(config) ==
    [f \in DOMAIN defaultConfig |->
        IF Given(config[f]) THEN config[f][1] ELSE defaultConfig[f]]

\* updateSchedulerConfig(config), startScheduledCollection merging the partial
updateSchedulerConfigWith(config) ==
    updateSchedulerConfig(finalConfig(config).autoStart,
                          finalConfig(config).cronExpression)

\* pauseScheduler clearing the statistics
pauseSchedulerResetting ==
    /\ IF task # NoTask
       THEN timers' = [timers EXCEPT ![task] = FALSE]
       ELSE UNCHANGED timers
    /\ stats' = InitialStats
    /\ runDurations' = <<>>
    /\ UNCHANGED <<task, now, isRunning, pc, runOf, result, newsItems>>
    /\ NoFinish
    /\ StoreConfigFrame

pauseScheduler ==
    /\ IF task # NoTask
       THEN timers' = [timers EXCEPT ![task] = FALSE]
       ELSE UNCHANGED timers
    /\ UNCHANGED <<task, now>>
    /\ RunFrame
    /\ NoFinish
    /\ StoreConfigFrame

\* resumeScheduler scheduling a task when it holds none
resumeSchedulerRegistering ==
    /\ IF task # NoTask
       THEN timers' = [timers EXCEPT ![task] = TRUE] /\ UNCHANGED task
       ELSE timers' = Append(timers, TRUE) /\ task' = Len(timers) + 1
    /\ UNCHANGED now
    /\ RunFrame
    /\ NoFinish
    /\ StoreConfigFrame

resumeScheduler ==
    /\ IF task # NoTask
       THEN timers' = [timers EXCEPT ![task] = TRUE]
       ELSE UNCHANGED timers
    /\ UNCHANGED <<task, now>>
    /\ RunFrame
    /\ NoFinish
    /\ StoreConfigFrame

resetStats ==
    /\ stats' = InitialStats
    /\ runDurations' = <<>>
    /\ UNCHANGED <<isRunning, pc, runOf, result, newsItems, now, task, timers>>
    /\ NoFinish
    /\ StoreConfigFrame

\* time passes while a run is in flight (the time that passes between two runs
\* moves every later timestamp alike and is left out)
Tick ==
    /\ now < T0 + MaxTicks * TickMs
    /\ isRunning
    /\ now' = now + TickMs
    /\ UNCHANGED <<task, timers>>
    /\ RunFrame
    /\ NoFinish
    /\ StoreConfigFrame

\* the categories the classifier gives
ClassifierCategories == {"AI_MODELS"}

Next ==
    \/ \E c \in Callers : TriggerManually(c)
    \/ TimerFires
    \/ \E c \in Callers :
          /\ pc[c] = "collecting"
          /\ \E collectedNews \in CollectorValues(now) :
                \E categories \in [1..Len(collectedNews) -> ClassifierCategories] :
                   CollectorResolves(c, collectedNews, categories)
    \/ \E c \in Callers : StorageSaves(c)
    \/ \E c \in Callers : RunCompletes(c)
    \/ \E c \in Callers, message \in StageErrors : StageThrows(c, message)
    \/ \E c \in Callers, message \in StageErrors : MetricsThrow(c, message)
    \/ \E autoStart \in BOOLEAN, expression \in CronExpressions :
          startScheduledCollection(autoStart, expression)
    \/ \E config \in PartialSchedulerConfig : updateSchedulerConfigWith(config)
    \/ stopScheduledCollection
    \/ pauseScheduler
    \/ resumeScheduler
    \/ resetStats
    \/ Tick

Spec == InitScheduler /\ [][Next]_vars

\* The steps of a run that come by themselves: the collector resolves (every
\* fetch attempt is answered and there are at most maxRetries of them for a
\* source), and the continuations after the awaits of the classification and
\* of the save are run by the event loop.
RunGoesOn(c) ==
    \/ /\ pc[c] = "collecting"
       /\ \E collectedNews \in CollectorValues(now) :
             \E categories \in [1..Len(collectedNews) -> ClassifierCategories] :
                CollectorResolves(c, collectedNews, categories)
    \/ StorageSaves(c)
    \/ RunCompletes(c)

InitFair == SchedulerBuilt(MaxRuns + 1)
SpecFair ==
    /\ InitFair
    /\ [][Next]_vars
    /\ WF_vars(\E c \in Callers : RunGoesOn(c))

(***************************************************************************)
(* ClassificationService.                                                  *)
(*                                                                         *)
(* A text (title, a space, description, in lower case) is given by how     *)
(* often each of a few keywords of the dictionary occurs in it and by the  *)
(* number of its other characters. None of these keywords contains, or is  *)
(* contained in, another keyword of the dictionary, so every such text can *)
(* be written down and no keyword but these matches it. The threshold is a *)
(* number of tenths and the confidence a fraction num/den, compared by     *)
(* cross-multiplication: the lengths of the model give quotients that the  *)
(* floating-point division gives exactly where they meet a threshold.      *)
(***************************************************************************)
Keywords ==
    <<[word |-> "gpt", length |-> 3, category |-> "AI_MODELS"],
      [word |-> "transformer", length |-> 11, category |-> "AI_MODELS"],
      [word |-> "siri", length |-> 4, category |-> "AI_ASSISTANT"],
      [word |-> "autonomous", length |-> 10, category |-> "AI_AGENT"]>>

Text(gpt, transformer, siri, autonomous, filler) ==
    [occ |-> <<gpt, transformer, siri, autonomous>>, filler |-> filler]

Texts ==
    {Text(0, 0, 0, 0, 20),  Text(0, 0, 0, 0, 2000),
     Text(1, 0, 0, 0, 17),  Text(1, 0, 0, 0, 997), Text(1, 0, 0, 0, 998),
     Text(1, 0, 1, 0, 13),  Text(1, 0, 2, 0, 9),
     Text(0, 1, 0, 1, 179), Text(0, 0, 0, 1, 390)}
ItemCategories == {"AI_MODELS", "AI_DATA_ANALYSIS"}
ClassifiedItems == [text : Texts, category : ItemCategories]
\* the items classifyNewsBatch is called with
BatchedItems ==
    {[text |-> Text(0, 0, 0, 0, 20), category |-> "AI_DATA_ANALYSIS"],
     [text |-> Text(1, 0, 2, 0, 9), category |-> "AI_MODELS"]}
DefaultCategories == {"AI_MODELS", "AI_SEARCH"}
ThresholdInputs == {0 - 1, 0, 1, 5, 10, 11}

RECURSIVE TextLengthFrom(_, _)
TextLengthFrom(text, k) ==
    IF k > Len(Keywords) THEN text.filler
    ELSE text.occ[k] * Keywords[k].length + TextLengthFrom(text, k + 1)
TextLength(text) == TextLengthFrom(text, 1)

getKeywordWeight(length) ==
    IF length > 10 THEN 3 ELSE IF length > 6 THEN 2 ELSE 1

\* getKeywordMatches: per category, the sum over its keywords of the number
\* of matches times the weight of the keyword
RECURSIVE CategoryScoreFrom(_, _, _)
CategoryScoreFrom(text, category, k) ==
    IF k > Len(Keywords) THEN 0
    ELSE (IF Keywords[k].category = category
          THEN text.occ[k] * getKeywordWeight(Keywords[k].length)
          ELSE 0)
         + CategoryScoreFrom(text, category, k + 1)
getKeywordMatches(text) ==
    [category \in CategorySet |-> CategoryScoreFrom(text, category, 1)]

\* the loop of analyzeContent over the entries of the scores, from the i-th
\* getMatchedKeywordsForCategory: the keywords of the category the text includes
getMatchedKeywordsForCategory(text, category) ==
    LET matching == SelectSeq([k \in 1..Len(Keywords) |-> k],
                              LAMBDA k : Keywords[k].category = category
                                         /\ text.occ[k] > 0)
    IN  [n \in 1..Len(matching) |-> Keywords[matching[n]].word]

\* the loop of analyzeContent taking a category whose score is not below the best
RECURSIVE BestFromLastWins(_, _, _, _, _, _)
BestFromLastWins(i, text, scores, bestCategory, bestScore, matchedKeywords) ==
    IF i > Len(AICategory)
    THEN [category |-> bestCategory, score |-> bestScore,
          matchedKeywords |-> matchedKeywords]
    ELSE IF scores[AICategory[i]] >= bestScore
         THEN BestFromLastWins(i + 1, text, scores, AICategory[i], scores[AICategory[i]],
                               getMatchedKeywordsForCategory(text, AICategory[i]))
         ELSE BestFromLastWins(i + 1, text, scores, bestCategory, bestScore,
                               matchedKeywords)

RECURSIVE BestFrom(_, _, _, _, _, _)
BestFrom(i, text, scores, bestCategory, bestScore, matchedKeywords) ==
    IF i > Len(AICategory)
    THEN [category |-> bestCategory, score |-> bestScore,
          matchedKeywords |-> matchedKeywords]
    ELSE IF scores[AICategory[i]] > bestScore
         THEN BestFrom(i + 1, text, scores, AICategory[i], scores[AICategory[i]],
                       getMatchedKeywordsForCategory(text, AICategory[i]))
         ELSE BestFrom(i + 1, text, scores, bestCategory, bestScore, matchedKeywords)

\* Math.min(bestScore / Math.max(textLength / 100, 1), 1.0) as a fraction
Confidence(bestScore, textLength) ==
    LET num == IF textLength > 100 THEN 100 * bestScore ELSE bestScore
        den == IF textLength > 100 THEN textLength ELSE 1
    IN  IF num > den THEN [num |-> 1, den |-> 1] ELSE [num |-> num, den |-> den]

analyzeContent(text, default) ==
    LET best == BestFrom(1, text, getKeywordMatches(text), default, 0, <<>>)
    IN  [category |-> best.category, matchedKeywords |-> best.matchedKeywords,
         confidence |-> Confidence(best.score, TextLength(text))]

\* confidence < threshold, the threshold in tenths
Below(confidence, tenths) == 10 * confidence.num < tenths * confidence.den

\* classifyNews giving the item's category also at a confidence equal to the
\* threshold
classifyNewsAtMost(newsItem, raises, default, threshold) ==
    IF raises THEN default
    ELSE LET analysed == analyzeContent(newsItem.text, default)
         IN  IF 10 * analysed.confidence.num <= threshold * analysed.confidence.den
             THEN newsItem.category
             ELSE analysed.category

\* classifyNews falling back to the item's category when the scoring raises
classifyNewsFallingBackToItem(newsItem, raises, default, threshold) ==
    IF raises THEN newsItem.category
    ELSE LET analysed == analyzeContent(newsItem.text, default)
         IN  IF Below(analysed.confidence, threshold)
             THEN newsItem.category
             ELSE analysed.category

\* classifyNews taking the item's category once that category has been counted
classifyNewsByCounts(newsItem, raises, default, threshold) ==
    IF raises THEN default
    ELSE LET analysed == analyzeContent(newsItem.text, default)
         IN  IF Below(analysed.confidence, threshold)
                \/ classificationStats[newsItem.category] > 0
             THEN newsItem.category
             ELSE analysed.category

\* classifyNews; raises says that analyzeContent throws
classifyNews(newsItem, raises, default, threshold) ==
    IF raises THEN default
    ELSE LET analysed == analyzeContent(newsItem.text, default)
         IN  IF Below(analysed.confidence, threshold)
             THEN newsItem.category
             ELSE analysed.category

InitClassifier ==
    /\ newsItems = <<>>
    /\ maxItems = 0
    /\ maxAgeInDays = 1
    /\ now = T0
    /\ lastOp = OpRecord("new", "", TRUE, 0)
    /\ fetch = <<>>
    /\ collected = [status |-> "idle", value |-> <<>>]
    /\ SchedulerIdle

OthersFrame == UNCHANGED <<storeVars, collectorVars, schedVars>>
ClassifierFrame == OthersFrame /\ UNCHANGED earlier

\* what a classifyNews call gives: the category returned and, when the scoring
\* did not raise, the confidence it logs
NoConfidence == [num |-> 0, den |-> 0]
Classified(newsItem, raises) ==
    [op |-> "classifyNews", item |-> newsItem, raised |-> raises,
     returned |-> classifyNews(newsItem, raises, defaultCategory,
                               minConfidenceThreshold),
     confidence |-> IF raises THEN NoConfidence
                    ELSE analyzeContent(newsItem.text, defaultCategory).confidence]

Classify(newsItem, raises) ==
    /\ lastCall' = Classified(newsItem, raises)
    /\ UNCHANGED <<defaultCategory, minConfidenceThreshold, classificationStats>>
    /\ ClassifierFrame

\* updateStats for the categories given, in turn
RECURSIVE updateStats(_, _)
updateStats(counts, categories) ==
    IF categories = <<>> THEN counts
    ELSE updateStats([counts EXCEPT ![Head(categories)] = @ + 1], Tail(categories))

RECURSIVE SumCounts(_, _)
SumCounts(counts, i) ==
    IF i > Len(AICategory) THEN 0 ELSE counts[AICategory[i]] + SumCounts(counts, i + 1)

\* the map of classifyNewsBatch leaving out the items whose scoring raised
RECURSIVE mapClassifyDroppingFailed(_, _, _, _)
mapClassifyDroppingFailed(items, raises, default, threshold) ==
    IF items = <<>> THEN <<>>
    ELSE LET rest == mapClassifyDroppingFailed(Tail(items), Tail(raises),
                                               default, threshold)
         IN  IF Head(raises) THEN rest
             ELSE <<[Head(items) EXCEPT
                       !.category = classifyNews(Head(items), FALSE, default, threshold)]>>
                  \o rest

\* the map of classifyNewsBatch: every item with its category replaced by what
\* classifyNews returns for it
mapClassify(items, raises, default, threshold) ==
    [i \in 1..Len(items) |->
        [items[i] EXCEPT !.category = classifyNews(items[i], raises[i], default, threshold)]]

ClassifyBatch(items, raises) ==
    /\ SumCounts(classificationStats, 1) + Len(items) <= MaxClassified
    /\ LET returned == mapClassify(items, raises, defaultCategory, minConfidenceThreshold)
           categories == [i \in 1..Len(returned) |-> returned[i].category]
       IN  /\ classificationStats' = updateStats(classificationStats, categories)
           /\ lastCall' = [op |-> "classifyNewsBatch", items |-> items,
                           raised |-> raises, returned |-> returned]
    /\ UNCHANGED <<defaultCategory, minConfidenceThreshold>>
    /\ ClassifierFrame

setDefaultCategory(category) ==
    /\ defaultCategory' = category
    /\ lastCall' = [op |-> "setDefaultCategory"]
    /\ UNCHANGED <<minConfidenceThreshold, classificationStats>>
    /\ ClassifierFrame

\* setConfidenceThreshold taking every threshold
AcceptedWhatever(threshold) == TRUE

\* is the threshold, in tenths, one that setConfidenceThreshold takes?
Accepted(threshold) == threshold >= 0 /\ threshold <= 10

setConfidenceThreshold(threshold) ==
    /\ minConfidenceThreshold' =
          IF Accepted(threshold) THEN threshold ELSE minConfidenceThreshold
    /\ lastCall' = [op |-> "setConfidenceThreshold", threw |-> ~Accepted(threshold)]
    /\ UNCHANGED <<defaultCategory, classificationStats>>
    /\ ClassifierFrame

resetClassificationStats ==
    /\ classificationStats' = [c \in CategorySet |-> 0]
    /\ lastCall' = [op |-> "resetStats"]
    /\ UNCHANGED <<defaultCategory, minConfidenceThreshold>>
    /\ ClassifierFrame

NextClassifier ==
    \/ \E newsItem \in ClassifiedItems, raises \in BOOLEAN : Classify(newsItem, raises)
    \/ \E n \in 0..MaxClassifyBatch :
          /\ SumCounts(classificationStats, 1) + n <= MaxClassified
          /\ \E items \in [1..n -> BatchedItems], raises \in [1..n -> BOOLEAN] :
                ClassifyBatch(items, raises)
    \/ \E category \in DefaultCategories : setDefaultCategory(category)
    \/ \E threshold \in ThresholdInputs : setConfidenceThreshold(threshold)
    \/ resetClassificationStats

SpecClassifier == InitClassifier /\ [][NextClassifier]_vars

\* The classifier with an observer that notes the first classifyNews call that
\* did not fail, if nothing had been counted by then: the item, the
\* configuration then, and what the call gave.
RepeatedThresholds == {0, 5}
SumOfCounts == SumCounts(classificationStats, 1)

ClassifyObserved(newsItem, raises) ==
    /\ lastCall' = Classified(newsItem, raises)
    /\ earlier' = IF earlier = NoCall /\ ~raises /\ SumOfCounts = 0
                  THEN [call |-> Classified(newsItem, raises),
                        default |-> defaultCategory,
                        threshold |-> minConfidenceThreshold]
                  ELSE earlier
    /\ UNCHANGED <<defaultCategory, minConfidenceThreshold, classificationStats>>
    /\ OthersFrame

NextRepeat ==
    \/ \E newsItem \in BatchedItems, raises \in BOOLEAN :
          ClassifyObserved(newsItem, raises)
    \/ \E n \in 0..MaxClassifyBatch :
          /\ SumOfCounts + n <= MaxClassified
          /\ \E items \in [1..n -> BatchedItems], raises \in [1..n -> BOOLEAN] :
                ClassifyBatch(items, raises)
    \/ \E category \in DefaultCategories : setDefaultCategory(category)
    \/ \E threshold \in RepeatedThresholds : setConfidenceThreshold(threshold)
    \/ resetClassificationStats

SpecRepeat == InitClassifier /\ [][NextRepeat]_vars

(***************************************************************************)
(* Properties of the SchedulerService (checked under Spec).                *)
(***************************************************************************)
InFlight == {c \in Callers : pc[c] # "idle"}

\* C1: at most one collection run is in flight at any time, and the scheduler
\* is Running exactly while one is; an invocation made while it is Running
\* starts no run (no invocation leaves "idle", no run is counted).
\* Of two manual invocations of which one is made while the run of the other is
\* in flight, the late one returns the 'already in progress' failure and the
\* run goes on; the run returns success unless a collaborator throws.
C1_OneRunInFlight ==
    /\ [](Cardinality(InFlight) <= 1 /\ (isRunning <=> InFlight # {}))
    /\ [][isRunning => /\ stats'.totalRuns <= stats.totalRuns
                       /\ \A c \in Callers : pc[c] = "idle" => pc'[c] = "idle"]_vars
    /\ [][\A c \in ManualCallers : \A d \in ManualCallers \ {c} :
             /\ (pc[c] # "idle" /\ TriggerManually(d))
                   => /\ result'[d] = AlreadyRunning
                      /\ pc'[c] = pc[c] /\ result'[c] = result[c]
             /\ (pc[c] # "idle" /\ pc'[c] = "idle"
                    /\ ~(\E message \in StageErrors :
                            StageThrows(c, message) \/ MetricsThrow(c, message)))
                   => /\ result'[c].success
                      /\ result'[d] = result[d]]_vars

\* two manual invocations, the second made while the first was in flight: one
\* run has begun, the first returned success and the second was turned away
C1_Witness ==
    /\ runsLeft = MaxRuns - 1
    /\ InFlight = {}
    /\ result["manual1"].success
    /\ result["manual2"].success = FALSE
    /\ result["manual2"].error = "Collection already in progress"
    /\ stats.totalRuns = 1

\* the collector resolves with the empty list when every source failed
AllFailed == [i \in SourceIndex |-> [ok |-> FALSE, message |-> <<"ETIMEDOUT">>]]

\* C12: when the collector resolves with the empty list (as it does when every
\* source failed) the run completes there and then as a success with 0 items,
\* without going on to the classification and the save: the store and
\* totalItemsCollected are as before, successfulRuns is one more and failedRuns
\* is unchanged; a batch that is classified is never empty.
C12_EmptyCollectionSucceeds ==
    /\ [](CollectorValue(AllFailed, now) = <<>>)
    /\ [](\A c \in Callers : pc[c] \in {"classified", "saved"} => runOf[c].batch # <<>>)
    /\ [][\A c \in Callers :
            (pc[c] = "collecting" /\ CollectorResolves(c, <<>>, <<>>))
              => /\ pc'[c] = "idle" /\ ~isRunning'
                 /\ newsItems' = newsItems
                 /\ stats'.successfulRuns = stats.successfulRuns + 1
                 /\ stats'.failedRuns = stats.failedRuns
                 /\ stats'.totalItemsCollected = stats.totalItemsCollected
                 /\ Len(runDurations') = Len(runDurations) + 1
                 /\ c \in ManualCallers
                       => /\ result'[c].success
                          /\ result'[c].itemsCollected = 0
                          /\ result'[c].error = NoError]_vars

\* C12 witness: the one run there was, a manual one, returned success with 0
\* items and is counted as successful, and nothing was ever stored
C12_Witness ==
    /\ runsLeft = MaxRuns - 1 /\ InFlight = {}
    /\ stats.totalRuns = 1 /\ stats.successfulRuns = 1 /\ stats.failedRuns = 0
    /\ stats.totalItemsCollected = 0
    /\ newsItems = <<>>
    /\ result["manual1"].success /\ result["manual1"].itemsCollected = 0

\* C13: a run is in flight exactly while isRunning is set, and every run that
\* starts completes (the collector resolving and the event loop running the
\* continuations); it leaves isRunning false and, to a manual
\* caller, a result that is a success or, when a stage threw, a failure with
\* the message thrown and 0 items; an invocation made when no run is in flight
\* starts a run.
C13_RunsComplete ==
    /\ [](isRunning <=> \E c \in Callers : pc[c] # "idle")
    /\ isRunning ~> ~isRunning
    /\ [][\A c \in Callers :
            (pc[c] # "idle" /\ pc'[c] = "idle")
              => /\ ~isRunning'
                 /\ c \in ManualCallers
                       => \/ result'[c].success /\ result'[c].error = NoError
                          \/ /\ ~result'[c].success
                             /\ result'[c].error \in StageErrors
                             /\ result'[c].itemsCollected = 0]_vars
    /\ [][\A c \in ManualCallers :
            (~isRunning /\ TriggerManually(c))
              => /\ pc'[c] = "collecting" /\ isRunning'
                 /\ stats'.totalRuns = stats.totalRuns + 1]_vars

\* C13 witness: a run in which a stage threw has returned the failure to its
\* caller and a second run, started afterwards, is in flight
C13_Witness ==
    /\ ~result["manual1"].success /\ result["manual1"].error \in StageErrors
    /\ result["manual1"].itemsCollected = 0
    /\ stats.failedRuns = 1 /\ stats.successfulRuns = 0 /\ stats.totalRuns = 2
    /\ pc["manual2"] = "collecting" /\ pc["manual1"] = "idle" /\ isRunning

RejectedStep(c) ==
    /\ isRunning
    /\ IF c = "timer" THEN TimerFires ELSE TriggerManually(c)

\* C2: an invocation turned away because a run is in flight returns at once
\* with success = false, itemsCollected = 0, duration = 0 and an error text;
\* it starts nothing now or later (no invocation changes position, no run is
\* counted) and leaves the statistics, the duration history, the Running flag
\* and the store as they were.
C2_RejectionChangesNothing ==
    [][\A c \in Callers : RejectedStep(c) =>
          /\ UNCHANGED <<stats, runDurations, isRunning, newsItems, pc, runOf, runsLeft,
                         task, timers>>
          /\ c \in ManualCallers =>
                /\ result'[c].success = FALSE
                /\ result'[c].itemsCollected = 0
                /\ result'[c].duration = 0
                /\ result'[c].error \notin {NoError, NoResult.error}
                /\ \A d \in ManualCallers \ {c} : result'[d] = result[d]]_vars

\* a manual invocation has been turned away during a run that began earlier
\* on the clock and has saved something
C2_Witness ==
    /\ \E c \in Callers : pc[c] = "saved" /\ runOf[c].startTime < now
                           /\ runOf[c].savedCount > 0
    /\ \E c \in ManualCallers : result[c] = AlreadyRunning
    /\ newsItems # <<>>
    /\ stats.totalRuns = 1 /\ runsLeft = MaxRuns

Ticking == {h \in DOMAIN timers : timers[h]}
TimerOperation ==
    \/ \E autoStart \in BOOLEAN, expression \in CronExpressions :
          startScheduledCollection(autoStart, expression)
    \/ \E autoStart \in BOOLEAN, expression \in CronExpressions :
          updateSchedulerConfig(autoStart, expression)
    \/ stopScheduledCollection
    \/ pauseScheduler
    \/ resumeScheduler

\* C14: whatever timer operations have been made, at most one timer fires, and
\* it is the one the scheduler holds; startScheduledCollection made while a
\* task is held stops that task.
C14_AtMostOneTimer ==
    /\ [](Cardinality(Ticking) <= 1 /\ \A h \in Ticking : h = task)
    /\ [][\A autoStart \in BOOLEAN, expression \in CronExpressions :
            (task # NoTask /\ startScheduledCollection(autoStart, expression))
              => /\ ~timers'[task]
                 /\ Ticking' \subseteq {task'} \ {task}]_vars

\* C14 witness: a second task has been scheduled; it fires and the first,
\* which was held then, does not
C14_Witness ==
    /\ Len(timers) = 2 /\ task = 2 /\ timers[2] /\ ~timers[1]
    /\ stats.totalRuns = 0

\* C15: in every state stopScheduledCollection leaves no timer firing and no
\* task held; with no task held it changes nothing; and made twice it leaves
\* what it leaves made once. It changes nothing but the timers and the task.
C15_StopIsIdempotent ==
    /\ [](LET once == stopTask(timers, task)
              twice == stopTask(once.timers, once.task)
          IN  /\ \A h \in DOMAIN once.timers : ~once.timers[h]
              /\ once.task = NoTask
              /\ task = NoTask => once = [timers |-> timers, task |-> task]
              /\ twice = once)
    /\ [][stopScheduledCollection
            => /\ Ticking' = {} /\ task' = NoTask
               /\ UNCHANGED <<isRunning, stats, runDurations, pc, runOf, result,
                              newsItems, now, maxItems, maxAgeInDays>>]_vars

\* C15 witness: a firing task has been stopped, after a run
C15_Witness ==
    /\ Len(timers) = 1 /\ ~timers[1] /\ task = NoTask
    /\ stats.totalRuns = 1 /\ ~isRunning

\* C16: stopScheduledCollection leaves the run in flight as it is; the run goes
\* on to its completion, where the statistics are updated; and while no task
\* is held no run is started by a timer.
C16_StopLeavesRunInFlight ==
    /\ [][stopScheduledCollection
            => /\ isRunning' = isRunning /\ pc' = pc /\ runOf' = runOf]_vars
    /\ [](isRunning <=> \E c \in Callers : pc[c] # "idle")
    /\ (isRunning /\ task = NoTask) ~> ~isRunning
    /\ [][\A c \in Callers :
            (task = NoTask /\ pc[c] # "idle" /\ pc'[c] = "idle")
              => /\ stats'.lastRun = now
                 /\ stats'.lastRunDuration = now - runOf[c].startTime
                 /\ stats'.successfulRuns + stats'.failedRuns
                       > stats.successfulRuns + stats.failedRuns
                 /\ runDurations' # <<>>]_vars
    /\ [][task = NoTask => (pc["timer"] = "idle" => pc'["timer"] = "idle")]_vars

\* C16 witness: the run a timer started is in flight, past the save, and the
\* timer has been stopped since
C16_Witness ==
    /\ pc["timer"] = "saved" /\ isRunning
    /\ Len(timers) = 1 /\ ~timers[1] /\ task = NoTask

\* C33: pauseScheduler leaves no timer firing and keeps the task held; a run
\* of the timer starts only while a timer fires, so none starts after a pause
\* before a timer is made to fire again, while executeCollectionManually
\* starts a run then as ever; resumeScheduler with a task held makes that same
\* timer fire and schedules none; with no task held (after a stop, or before
\* any start) it changes nothing, no timer is scheduled and none fires.
C33_PauseAndResume ==
    /\ [][pauseScheduler
            => /\ Ticking' = {} /\ task' = task /\ Len(timers') = Len(timers)]_vars
    /\ [][(pc["timer"] = "idle" /\ pc'["timer"] # "idle") => Ticking # {}]_vars
    /\ [][\A c \in ManualCallers :
            (Ticking = {} /\ ~isRunning /\ TriggerManually(c))
              => /\ pc'[c] = "collecting" /\ isRunning'
                 /\ stats'.totalRuns = stats.totalRuns + 1]_vars
    /\ [][resumeScheduler
            => IF task # NoTask
               THEN /\ task' = task /\ Len(timers') = Len(timers)
                    /\ Ticking' = {task}
               ELSE /\ timers' = timers /\ task' = NoTask
                    /\ Ticking' = {}]_vars

\* C33 witness: the task held has been stopped from firing, and a run started
\* manually is in flight
C33_Witness ==
    /\ Len(timers) = 1 /\ task = 1 /\ ~timers[1]
    /\ stats.totalRuns = 1 /\ pc["manual1"] = "saved"

\* C34: updateSchedulerConfig stops the task held, if any, from firing; unless
\* cron.schedule throws it schedules exactly one task, held from then on and
\* the only one that may fire, with the expression and autoStart of the
\* partial given where it gives them and the built-in defaults (not the
\* values of the task held before) where it does not; so a task is held
\* after every call that returns normally, whether one was held or not.
C34_UpdateRestartsFromDefaults ==
    [][(timers' # timers \/ task' # task)
         => LET \* the only call of updateSchedulerConfig the step can be: a task
                \* was scheduled, with the autoStart it shows, or none was
                scheduled == Len(timers') > Len(timers)
                expression == IF scheduled THEN "valid" ELSE "invalid"
                autoStart == IF scheduled THEN timers'[Len(timers')] ELSE TRUE
            IN  updateSchedulerConfig(autoStart, expression)
                  => \A config \in PartialSchedulerConfig :
                        (/\ finalConfig(config).cronExpression = expression
                         /\ scheduled => finalConfig(config).autoStart = autoStart)
                          => LET given == IF config.cronExpression = <<>> THEN "valid"
                                          ELSE config.cronExpression[1]
                                 fires == IF config.autoStart = <<>> THEN TRUE
                                          ELSE config.autoStart[1]
                             IN  /\ task # NoTask => ~timers'[task]
                                 /\ given = "valid"
                                      => /\ Len(timers') = Len(timers) + 1
                                         /\ task' = Len(timers') /\ task' # NoTask
                                         /\ timers'[task'] = fires
                                         /\ Ticking' \subseteq {task'}]_vars

\* C34 witness: a task scheduled not to fire was held and updateSchedulerConfig
\* has put a task that fires (the default) in its place
C34_Witness ==
    /\ Len(timers) = 2 /\ task = 2 /\ timers[2] /\ ~timers[1]
    /\ stats.totalRuns = 1 /\ pc["timer"] = "collecting"

\* C17: no timer operation changes the statistics or the duration history.
C17_TimerOperationsKeepStats ==
    [][TimerOperation => stats' = stats /\ runDurations' = runDurations]_vars

\* C17 witness: timer operations have been made after a run and the run's
\* statistics are there
C17_Witness ==
    /\ stats.totalRuns = 1 /\ stats.successfulRuns = 1 /\ stats.lastRun # 0 - 1
    /\ Len(runDurations) = 1 /\ ~isRunning
    /\ Len(timers) = 2 /\ task = 2 /\ ~timers[1]

(***************************************************************************)
(* SpecQuery: a StorageService built with its default limits, a few items  *)
(* of different categories, sources and dates saved into it in any order,  *)
(* and getNewsItems called with any of the filter options.                 *)
(***************************************************************************)
QueriedItems ==
    {[id |-> "id1", link |-> "u1", pubDate |-> T0,
      category |-> "AI_MODELS", source |-> "AINOW"],
     [id |-> "id2", link |-> "u2", pubDate |-> T0 - OneHour,
      category |-> "AI_IDE", source |-> "AINOW"],
     [id |-> "id3", link |-> "u3", pubDate |-> T0 - OneHour,
      category |-> "AI_MODELS", source |-> "Qiita"]}

StorageFilterOptions ==
    [category : {<<>>, <<"all">>, <<"AI_MODELS">>},
     startDate : {<<>>, <<T0 - OneHour>>},
     endDate : {<<>>, <<T0 - OneHour>>},
     source : {<<>>, <<"AINOW">>},
     limit : {<<>>, <<0>>, <<1>>, <<2>>},
     offset : {<<>>, <<0>>, <<1>>}]

InitQuery ==
    /\ newsItems = <<>>
    /\ maxItems = DefaultMaxItems
    /\ maxAgeInDays = DefaultMaxAgeInDays
    /\ now = T0
    /\ lastOp = OpRecord("new", "", TRUE, 0)
    /\ fetch = <<>>
    /\ collected = [status |-> "idle", value |-> <<>>]
    /\ SchedulerIdle

Query(options) ==
    /\ lastOp' = [op |-> "query", options |-> options,
                  returned |-> getNewsItems(newsItems, options)]
    /\ UNCHANGED newsItems
    /\ StoreFrame

NextQuery ==
    \/ \E n \in QueriedItems : Save(n)
    \/ \E options \in StorageFilterOptions : Query(options)

SpecQuery == InitQuery /\ [][NextQuery]_vars

(***************************************************************************)
(* Properties of the StorageService (checked under SpecStore).             *)
(*                                                                         *)
(* "The id of a stored item" is the key the store holds it under, which    *)
(* is what getNewsItem(id) and isDuplicate look up; that the item's own id *)
(* field agrees with that key is claim C8.                                 *)
(***************************************************************************)
Entry(newsItem) == [key |-> newsItem.id, item |-> newsItem]
Entries(m) == {m[i] : i \in 1..Len(m)}
IsStale(e) == e.item.pubDate < now - maxAgeInDays * DayMs
SameLinkWithinHour(e, newsItem) ==
    /\ e.item.link = newsItem.link
    /\ e.item.pubDate - newsItem.pubDate <= OneHour
    /\ newsItem.pubDate - e.item.pubDate <= OneHour

\* C3: saving an item whose id is already stored returns false and leaves the
\* store exactly as it was (no field changes, nothing is pruned or evicted);
\* so a second save of an item that is stored returns false and the size stays.
C3_DuplicateIdRejected ==
    [][\A n \in NewsItem :
          (/\ lastOp'.op = "save" /\ lastOp'.id = n.id
           /\ getNewsItem(newsItems, n.id) # Undefined
           /\ Save(n))
              => (lastOp'.ret = FALSE /\ newsItems' = newsItems)]_vars

\* C3 witness: the store holds one item and a save of that id has just been refused
C3_Witness ==
    /\ lastOp.op = "save" /\ lastOp.ret = FALSE
    /\ Len(newsItems) = 1 /\ newsItems[1].key = lastOp.id

\* C4 as stated: a save of a new id is refused without mutation when a stored
\* item has the same link and a publishedAt at most 1 hour away; otherwise it is
\* accepted and both the new item and the stored items of that link are kept.
C4_AsStated ==
    [][\A n \in NewsItem :
          (/\ lastOp'.op = "save" /\ lastOp'.id = n.id
           /\ ~MapHas(newsItems, n.id)
           /\ Save(n))
              => IF \E e \in Entries(newsItems) : SameLinkWithinHour(e, n)
                 THEN lastOp'.ret = FALSE /\ newsItems' = newsItems
                 ELSE /\ lastOp'.ret = TRUE
                      /\ \A e \in Entries(newsItems) :
                            e.item.link = n.link
                                => /\ e \in Entries(newsItems')
                                   /\ Entry(n) \in Entries(newsItems')]_vars

\* C4 amended: a save of a new id is refused without mutation when a stored item
\* has the same link and a publishedAt at most 1 hour away (exactly 1 hour
\* included); otherwise save returns true, and the new item and the stored ones
\* are kept except for what the retention pruning and the capacity eviction of
\* that call remove: an item not older than the retention cutoff is kept
\* whenever the items not older than the cutoff number at most maxItems.
C4_LinkWindowDedup ==
    [][\A n \in NewsItem :
          (/\ lastOp'.op = "save" /\ lastOp'.id = n.id
           /\ ~MapHas(newsItems, n.id)
           /\ Save(n))
              => IF \E e \in Entries(newsItems) : SameLinkWithinHour(e, n)
                 THEN lastOp'.ret = FALSE /\ newsItems' = newsItems
                 ELSE LET all == Entries(newsItems) \cup {Entry(n)}
                          fresh == {e \in all : ~IsStale(e)}
                      IN  /\ lastOp'.ret = TRUE
                          /\ Entries(newsItems') \subseteq fresh
                          /\ Cardinality(fresh) <= maxItems
                                => Entries(newsItems') = fresh]_vars

\* C4 witness: an accepted save after which two items of one link, more than
\* 1 hour apart, are both stored
C4_Witness ==
    /\ lastOp.op = "save" /\ lastOp.ret = TRUE
    /\ \E e, f \in Entries(newsItems) :
          /\ e.key = lastOp.id /\ f.key # e.key
          /\ e.item.link = f.item.link
          /\ Abs(e.item.pubDate - f.item.pubDate) > OneHour

\* C5: a store built with maxItems = N holds at most N items after every call
C5_AtMostMaxItems == Len(newsItems) <= maxItems

\* C5 witness: a batch that saved more items than the store's capacity
C5_Witness ==
    /\ lastOp.op = "saveAll" /\ lastOp.count > maxItems
    /\ maxItems >= 1 /\ Len(newsItems) = maxItems

\* C6: when a save leaves more than maxItems items after the retention pruning,
\* exactly maxItems remain, every evicted item is older than every kept one or
\* as old and inserted earlier, a kept item is unchanged, and an evicted id is
\* returned neither by get nor by a query (which lists the kept items only).
C6_OldestEvictedFirst ==
    [][\A n \in NewsItem :
          (/\ lastOp'.op = "save" /\ lastOp'.id = n.id /\ lastOp'.ret = TRUE
           /\ Save(n))
              => LET before == Append(newsItems, Entry(n))
                     fresh == {i \in 1..Len(before) : ~IsStale(before[i])}
                     kept == {i \in fresh : before[i] \in Entries(newsItems')}
                     evicted == fresh \ kept
                     listed == getNewsItems(newsItems', NoOptions)
                 IN  Cardinality(fresh) > maxItems
                       => /\ Len(newsItems') = maxItems
                          /\ Cardinality(kept) = maxItems
                          /\ \A i \in evicted, j \in kept :
                                \/ before[i].item.pubDate < before[j].item.pubDate
                                \/ /\ before[i].item.pubDate = before[j].item.pubDate
                                   /\ i < j
                          /\ \A i \in evicted :
                                /\ getNewsItem(newsItems', before[i].key) = Undefined
                                /\ before[i].key \notin MapKeys(newsItems')
                          /\ Len(listed) = maxItems
                          /\ \A k \in 1..Len(listed) :
                                \E j \in kept : listed[k] = before[j].item]_vars

\* C6 witness: nothing is older than the retention cutoff, the store is full and
\* the item just saved is no longer in it
C6_Witness ==
    /\ lastOp.op = "save" /\ lastOp.ret = TRUE
    /\ maxItems = 2 /\ Len(newsItems) = 2
    /\ \A e \in Entries(newsItems) : ~IsStale(e)
    /\ getNewsItem(newsItems, lastOp.id) = Undefined

\* C7: immediately after a save that returned true no stored item has a
\* publishedAt earlier than the current time minus maxAgeInDays days
C7_NoStaleAfterSave ==
    (lastOp.op = "save" /\ lastOp.ret = TRUE)
        => \A e \in Entries(newsItems) : e.item.pubDate >= now - maxAgeInDays * DayMs

\* C7 witness: with maxAgeInDays = 1 the item just saved, published more than a
\* day ago, is absent while a newer one remains
C7_Witness ==
    /\ lastOp.op = "save" /\ lastOp.ret = TRUE
    /\ maxAgeInDays = 1 /\ now > T0
    /\ getNewsItem(newsItems, lastOp.id) = Undefined
    /\ Len(newsItems) >= 1 /\ Len(newsItems) < maxItems

\* C8: no two stored items carry the same id and every item is stored under
\* the key equal to its own id
C8_IdIsKey ==
    /\ \A e \in Entries(newsItems) : e.key = e.item.id
    /\ \A i, j \in 1..Len(newsItems) :
          newsItems[i].item.id = newsItems[j].item.id => i = j

(***************************************************************************)
(* Properties of the ClassificationService (checked under SpecClassifier). *)
(***************************************************************************)
ClassifiedWithoutFailure == lastCall.op = "classifyNews" /\ ~lastCall.raised

\* the highest score of a category for the text
HighestScore(text) ==
    LET scores == getKeywordMatches(text)
    IN  CHOOSE b \in {scores[c] : c \in CategorySet} : \A c \in CategorySet : scores[c] <= b

\* the candidate: the category of the highest score, the first of them in the
\* order of the dictionary; the global default when no category scores
Candidate(text, default) ==
    LET scores == getKeywordMatches(text)
        highest == HighestScore(text)
        first == CHOOSE i \in DOMAIN AICategory :
                    /\ scores[AICategory[i]] = highest
                    /\ \A j \in 1..(i - 1) : scores[AICategory[j]] < highest
    IN  IF highest = 0 THEN default ELSE AICategory[first]

\* occurrences x weight, summed over the keywords of a category
ScoreOf(text, category) ==
    SumSeq([k \in 1..Len(Keywords) |->
              IF Keywords[k].category = category
              THEN text.occ[k] * (IF Keywords[k].length > 10 THEN 3
                                  ELSE IF Keywords[k].length > 6 THEN 2 ELSE 1)
              ELSE 0])

\* C32: the score of a category is the sum over its keywords of occurrences
\* times weight (3 for a keyword longer than 10, 2 for longer than 6, else 1);
\* the candidate is the category of the highest score, the first of them in
\* the order of the dictionary; when every score is 0 the candidate is the
\* global default and no keyword is reported as matched.
C32_ScoreAndCandidate ==
    ClassifiedWithoutFailure
      => LET text == lastCall.item.text
             analysed == analyzeContent(text, defaultCategory)
         IN  /\ \A c \in CategorySet : getKeywordMatches(text)[c] = ScoreOf(text, c)
             /\ IF \A c \in CategorySet : ScoreOf(text, c) = 0
                THEN /\ analysed.category = defaultCategory
                     /\ analysed.matchedKeywords = <<>>
                ELSE \E i \in DOMAIN AICategory :
                        /\ analysed.category = AICategory[i]
                        /\ \A j \in DOMAIN AICategory :
                              /\ ScoreOf(text, AICategory[j]) <= ScoreOf(text, AICategory[i])
                              /\ j < i => ScoreOf(text, AICategory[j])
                                             < ScoreOf(text, AICategory[i])
                        /\ analysed.matchedKeywords =
                              getMatchedKeywordsForCategory(text, AICategory[i])

\* C32 witness: a text in which a keyword of the first category and one of the
\* second occur once each was classified, the threshold letting the candidate
\* through, and the first category was returned
C32_Witness ==
    /\ ClassifiedWithoutFailure
    /\ lastCall.item.text = Text(1, 0, 1, 0, 13)
    /\ lastCall.item.category = "AI_DATA_ANALYSIS"
    /\ minConfidenceThreshold = 0
    /\ lastCall.returned = "AI_MODELS"

\* min(bestScore / max(textLength / 100, 1), 1) >= tenths / 10
ConfidenceAtLeast(text, tenths) ==
    LET textLength == TextLength(text)
        longer == IF textLength > 100 THEN textLength ELSE 100
    IN  1000 * HighestScore(text) >= tenths * longer /\ tenths <= 10

\* C18: a classifier just built has the threshold 0.1; classifyNews, when the
\* scoring does not raise, returns the highest-scoring candidate if
\* min(bestScore / max(textLength / 100, 1), 1) is at least the threshold
\* configured and the item's own category if it is below.
C18_ThresholdDecides ==
    /\ lastCall = NoCall => minConfidenceThreshold = DefaultThresholdTenths
    /\ ClassifiedWithoutFailure
         => lastCall.returned =
               IF ConfidenceAtLeast(lastCall.item.text, minConfidenceThreshold)
               THEN Candidate(lastCall.item.text, defaultCategory)
               ELSE lastCall.item.category

\* C18 witness: at the threshold 0.5, a text of 400 characters with one
\* keyword of weight 2 (confidence 0.5) has been given the candidate
C18_Witness ==
    /\ ClassifiedWithoutFailure
    /\ minConfidenceThreshold = 5
    /\ lastCall.item.text = Text(0, 0, 0, 1, 390)
    /\ lastCall.item.category = "AI_DATA_ANALYSIS"
    /\ lastCall.returned = "AI_AGENT"

NoKeywordOccurs(text) == \A k \in DOMAIN Keywords : text.occ[k] = 0

\* C19: for a text in which no keyword occurs classifyNews returns the item's
\* own category, whatever accepted threshold is configured.
C19_NoKeywordGivesItemCategory ==
    (ClassifiedWithoutFailure /\ NoKeywordOccurs(lastCall.item.text))
        => lastCall.returned = lastCall.item.category

\* C20: when the scoring raises, classifyNews returns the global default
\* category as it is configured then, and leaves the default category, the
\* threshold and the counters as they were.
C20_FailureGivesGlobalDefault ==
    /\ []((lastCall.op = "classifyNews" /\ lastCall.raised)
            => lastCall.returned = defaultCategory)
    /\ [][\A newsItem \in ClassifiedItems :
            Classify(newsItem, TRUE)
              => /\ lastCall'.returned = defaultCategory
                 /\ UNCHANGED <<defaultCategory, minConfidenceThreshold,
                                classificationStats>>]_vars

\* C20 witness: with the global default and the threshold changed and an item
\* counted, a classification whose scoring raised gave the global default,
\* which is not the item's category
C20_Witness ==
    /\ lastCall.op = "classifyNews" /\ lastCall.raised
    /\ defaultCategory = "AI_SEARCH" /\ lastCall.returned = "AI_SEARCH"
    /\ lastCall.item.category = "AI_DATA_ANALYSIS"
    /\ minConfidenceThreshold = 5
    /\ classificationStats["AI_DATA_ANALYSIS"] = 1

\* C21: setConfidenceThreshold with a value from 0 to 1 makes it the
\* threshold and raises nothing; with a value outside it raises and the
\* threshold stays the one configured before. Nothing else changes.
C21_ThresholdValidated ==
    /\ [](minConfidenceThreshold >= 0 /\ minConfidenceThreshold <= 10)
    /\ [][\A threshold \in ThresholdInputs :
            (lastCall'.op = "setConfidenceThreshold" /\ setConfidenceThreshold(threshold))
              => /\ IF threshold >= 0 /\ threshold <= 10
                    THEN minConfidenceThreshold' = threshold /\ ~lastCall'.threw
                    ELSE /\ minConfidenceThreshold' = minConfidenceThreshold
                         /\ lastCall'.threw
                 /\ UNCHANGED <<defaultCategory, classificationStats>>]_vars

\* C21 witness: a threshold outside [0,1] has been refused after the threshold
\* had been set to 0.5, which is still the threshold
C21_Witness ==
    /\ lastCall.op = "setConfidenceThreshold" /\ lastCall.threw
    /\ minConfidenceThreshold = 5

C23_BatchKeepsOrderAndCount ==
    lastCall.op = "classifyNewsBatch"
        => /\ Len(lastCall.returned) = Len(lastCall.items)
           /\ \A i \in 1..Len(lastCall.items) :
                 /\ lastCall.returned[i].text = lastCall.items[i].text
                 /\ lastCall.returned[i].category
                       = Classified(lastCall.items[i], lastCall.raised[i]).returned

\* C23 witness: a batch of two items of different texts has been returned, the
\* first with its own category and the second with a scored one
C23_Witness ==
    /\ lastCall.op = "classifyNewsBatch" /\ Len(lastCall.returned) = 2
    /\ lastCall.returned[1] = [text |-> Text(0, 0, 0, 0, 20), category |-> "AI_DATA_ANALYSIS"]
    /\ lastCall.returned[2] = [text |-> Text(1, 0, 2, 0, 9), category |-> "AI_ASSISTANT"]
    /\ classificationStats["AI_DATA_ANALYSIS"] = 1
    /\ classificationStats["AI_ASSISTANT"] = 1

ItemFields == {"id", "link", "pubDate", "category", "source"}

\* C25: updateNewsItem and deleteNewsItem of an id that is not stored return
\* false and change nothing; updateNewsItem of a stored id returns true, gives
\* the fields present in the partial their new values and leaves the other
\* fields of the item, its place and every other item as they were;
\* deleteNewsItem of a stored id returns true and removes that item only.
C25_UpdateAndDeleteByBoolean ==
    [][/\ lastOp'.op = "update" =>
          \A id \in {lastOp'.id}, updates \in PartialNewsItem :
            Update(id, updates)
              => IF ~MapHas(newsItems, id)
                 THEN lastOp'.ret = FALSE /\ newsItems' = newsItems
                 ELSE /\ lastOp'.ret = TRUE
                      /\ Len(newsItems') = Len(newsItems)
                      /\ \A i \in 1..Len(newsItems) :
                            /\ newsItems'[i].key = newsItems[i].key
                            /\ newsItems[i].key # id => newsItems'[i] = newsItems[i]
                            /\ newsItems[i].key = id
                                  => \A f \in ItemFields :
                                        newsItems'[i].item[f] =
                                           IF IsPresent(updates, f) THEN updates[f]
                                           ELSE newsItems[i].item[f]
       /\ lastOp'.op = "delete" =>
          \A id \in {lastOp'.id} :
            Delete(id)
              => IF ~MapHas(newsItems, id)
                 THEN lastOp'.ret = FALSE /\ newsItems' = newsItems
                 ELSE /\ lastOp'.ret = TRUE
                      /\ newsItems' = SelectSeq(newsItems, LAMBDA e : e.key # id)
                      /\ Len(newsItems') = Len(newsItems) - 1]_vars

\* C25 witness: an update has given a stored item, one of two, another id
C25_Witness ==
    /\ lastOp.op = "update" /\ lastOp.ret = TRUE
    /\ Len(newsItems) = 2
    /\ \E e \in Entries(newsItems) : e.key = lastOp.id /\ e.item.id # e.key

(***************************************************************************)
(* Properties of getNewsItems (checked under SpecQuery).                   *)
(***************************************************************************)
\* the stored items that satisfy every filter supplied
Satisfying(options) ==
    {e.item : e \in {e \in Entries(newsItems) :
        /\ (options.category # <<>> /\ options.category # <<"all">>)
              => e.item.category = options.category[1]
        /\ options.source # <<>> => e.item.source = options.source[1]
        /\ options.startDate # <<>> => options.startDate[1] <= e.item.pubDate
        /\ options.endDate # <<>> => e.item.pubDate <= options.endDate[1]}}

\* the lists of all the items of a set, newest first
NewestFirstLists(items) ==
    {list \in [1..Cardinality(items) -> items] :
        /\ \A i, j \in DOMAIN list : i < j => list[i].pubDate >= list[j].pubDate
        /\ \A i, j \in DOMAIN list : list[i] = list[j] => i = j}

\* a list without its first offset items, cut to at most limit items
Page(list, offset, limit) ==
    LET from == IF offset = <<>> THEN 0 ELSE offset[1]
        rest == Len(list) - from
        count == IF limit = <<>> \/ limit[1] > rest THEN rest ELSE limit[1]
    IN  IF count <= 0 THEN <<>> ELSE SubSeq(list, from + 1, from + count)

\* C24: getNewsItems returns the stored items that satisfy every filter
\* supplied, newest first, without the first offset of them and cut to at
\* most limit items, for every offset >= 0 and limit >= 0 supplied.
C24_QueryFiltersSortsPages ==
    lastOp.op = "query"
        => \E list \in NewestFirstLists(Satisfying(lastOp.options)) :
              lastOp.returned = Page(list, lastOp.options.offset, lastOp.options.limit)

(***************************************************************************)
(* SpecPipeline: the runs of the scheduler with the collector they await,  *)
(* the parser answering each attempt of each source with a feed or an      *)
(* error.                                                                  *)
(***************************************************************************)
\* executeCollectionManually: executeCollection up to its first await, where
\* collectFromAllSources has started the first attempt of every source
RunCalled(c) ==
    /\ c \in ManualCallers
    /\ Execute(c)
    /\ IF executeCollectionSkips(isRunning)
       THEN UNCHANGED <<fetch, collected>>
       ELSE /\ fetch' = [i \in SourceIndex |-> FetchStart]
            /\ collected' = [status |-> "pending", value |-> <<>>]
    /\ UNCHANGED <<task, timers, maxItems, maxAgeInDays, lastOp, classifierVars>>
    /\ NoFinish

\* the collector has resolved: executeCollection goes on after its await
CollectorAwaited(c) ==
    /\ collected.status = "fulfilled"
    /\ \E categories \in [1..Len(collected.value) -> ClassifierCategories] :
          CollectorResolves(c, collected.value, categories)

\* the parser answers an attempt with a feed of one item or with an error
FeedOrError == {response \in FinalResponses : response.ok => response.items # <<>>}

NextPipeline ==
    \/ \E c \in Callers : RunCalled(c)
    \/ \E i \in SourceIndex, response \in FeedOrError : AttemptAnswered(i, response)
    \/ \E i \in SourceIndex : DelayElapsed(i)
    \/ AllSettled
    \/ \E c \in Callers : CollectorAwaited(c)
    \/ \E c \in Callers : StorageSaves(c)
    \/ \E c \in Callers : RunCompletes(c)
    \/ \E c \in Callers, message \in StageErrors : StageThrows(c, message)

SpecPipeline == InitFair /\ [][NextPipeline]_vars

\* the steps of the run of caller c
ClassificationStarts(c) == pc[c] = "collecting" /\ pc'[c] = "classified"
SaveHappens(c) == pc[c] # "saved" /\ pc'[c] = "saved"

\* C29: a run classifies only when the fetch of every source has settled,
\* fulfilled or rejected after its last attempt; the store is changed only by
\* the save of a run whose whole batch is classified; and when a run saves no
\* other run is in flight, so the saves of a run that started earlier have all
\* been made.
C29_StagesInOrder ==
    [][/\ \A c \in Callers :
            /\ ClassificationStarts(c)
                 => /\ \A i \in SourceIndex :
                          /\ Settled(fetch[i])
                          /\ fetch[i].status = "rejected"
                                => Len(fetch[i].tried) = maxRetries
                    /\ Len(runOf'[c].batch) = Len(allNews(fetch, Len(fetch)))
            /\ SaveHappens(c)
                 => /\ pc[c] = "classified"
                    /\ \A i \in SourceIndex : Settled(fetch[i])
                    /\ \A d \in Callers \ {c} : pc[d] = "idle"
       /\ newsItems' # newsItems => \E c \in Callers : SaveHappens(c)]_vars

\* C29 witness: the second run has saved, after a source was fetched at the
\* third attempt and another was given up
C29_Witness ==
    /\ stats.totalRuns = 2 /\ stats.successfulRuns = 1
    /\ \E c \in Callers : pc[c] = "saved"
    /\ \E i \in SourceIndex : fetch[i].status = "fulfilled" /\ Len(fetch[i].tried) = 3
    /\ \E i \in SourceIndex : fetch[i].status = "rejected"

(***************************************************************************)
(* Accounting of a run (checked under Spec).                               *)
(***************************************************************************)
\* the run of caller c starts, or ends, in this step
RunStarts(c) == pc[c] = "idle" /\ pc'[c] # "idle"
RunEnds(c) == pc[c] # "idle" /\ pc'[c] = "idle"

\* C28: the step that starts a run adds exactly 1 to totalRuns; the step that
\* completes a run adds exactly 1 to exactly one of successfulRuns and
\* failedRuns, appends exactly one duration to the history, and adds the count
\* saveNewsItems returned to totalItemsCollected when the run is counted and
\* reported as a success and nothing otherwise, also when a step after the
\* statistics update throws.
C28_RunCountedOnce ==
    [][\A c \in Callers :
          /\ RunStarts(c) => stats'.totalRuns = stats.totalRuns + 1
          /\ RunEnds(c) =>
               LET succeeded == /\ stats'.successfulRuns = stats.successfulRuns + 1
                                /\ stats'.failedRuns = stats.failedRuns
                   failed == /\ stats'.failedRuns = stats.failedRuns + 1
                             /\ stats'.successfulRuns = stats.successfulRuns
                   pushed == Append(runDurations, now - runOf[c].startTime)
               IN  /\ succeeded \/ failed
                   /\ stats'.totalRuns = stats.totalRuns
                   /\ runDurations' = IF Len(pushed) > maxDurationHistory
                                      THEN Tail(pushed) ELSE pushed
                   /\ c \in ManualCallers => result'[c].success = succeeded
                   /\ stats'.totalItemsCollected =
                         stats.totalItemsCollected
                           + (IF succeeded THEN runOf[c].savedCount ELSE 0)]_vars

\* the last n elements of a sequence
LastOf(seq, n) == IF Len(seq) <= n THEN seq ELSE SubSeq(seq, Len(seq) - n + 1, Len(seq))

\* C31: the step that completes a run appends the duration of that run, once,
\* to the history and keeps the last 10 of them in order; averageRunDuration
\* is the arithmetic mean of the history and lastRunDuration its last element.
C31_RollingDurations ==
    [][\A c \in Callers :
          RunEnds(c) =>
             LET duration == now - runOf[c].startTime
             IN  /\ runDurations' = LastOf(Append(runDurations, duration), 10)
                 /\ stats'.lastRunDuration = duration
                 /\ stats'.lastRunDuration = runDurations'[Len(runDurations')]
                 /\ stats'.averageRunDuration.count = Len(runDurations')
                 /\ stats'.averageRunDuration.sum = SumSeq(runDurations')]_vars

(***************************************************************************)
(* SpecRefetch: the records of a feed are converted by the collector and   *)
(* the items saved in a StorageService built with its default limits, the  *)
(* same records coming again when the feed is fetched later.               *)
(***************************************************************************)
RawOther == [link |-> "u2", pubDate |-> T0 - OneHour - 1]
RawNoLink == [link |-> Absent, pubDate |-> T0]
RawNoDate == [link |-> "u1", pubDate |-> AbsentDate]
RssItems == {RawGood, RawOther, RawNoLink, RawNoDate, RawBare, RawBadDate}

\* feed.map(item => this.convertToNewsItem(item, source)) for one record
Convert(rssItem, i) ==
    /\ lastOp' = IF ConvertThrows(rssItem)
                 THEN [op |-> "convertToNewsItem", rssItem |-> rssItem,
                       source |-> i, raised |-> TRUE]
                 ELSE [op |-> "convertToNewsItem", rssItem |-> rssItem,
                       source |-> i, raised |-> FALSE,
                       item |-> convertToNewsItem(rssItem, RSS_SOURCES[i], now)]
    /\ UNCHANGED newsItems
    /\ StoreFrame

\* the item converted last is handed to saveNewsItem
SaveConverted ==
    /\ lastOp.op = "convertToNewsItem" /\ ~lastOp.raised
    /\ Save(lastOp.item)

NextRefetch ==
    \/ \E rssItem \in RssItems, i \in SourceIndex : Convert(rssItem, i)
    \/ SaveConverted
    \/ Advance

SpecRefetch == InitQuery /\ [][NextRefetch]_vars

\* the times at which a record may have been converted up to now
TimesUpTo(clock) == {t \in {T0} \cup Clocks : t <= clock}

\* C27: a record the collector accepts gets the same id whenever it is
\* converted: when the store holds the item an earlier conversion of the
\* record gave, the item converted now has the id of that item and
\* saveNewsItem rejects it, its id being a key of the store.
C27_SameRecordSameId ==
    [][(lastOp.op = "convertToNewsItem" /\ lastOp'.op = "save")
         => \A t \in TimesUpTo(now) :
              LET first == convertToNewsItem(lastOp.rssItem,
                                             RSS_SOURCES[lastOp.source], t)
              IN  (\E e \in Entries(newsItems) : e.key = first.id /\ e.item = first)
                    => /\ lastOp.item.id = first.id
                       /\ MapHas(newsItems, lastOp.item.id)
                       /\ lastOp'.ret = FALSE
                       /\ newsItems' = newsItems]_vars


(***************************************************************************)
(* SpecBatch: a StorageService under saveNewsItems calls with batches of   *)
(* up to three items of one link, published within an hour of each other   *)
(* or a millisecond more, under deletes and the passing of time.           *)
(***************************************************************************)
LinkedItems ==
    {[id |-> "id1", link |-> "u1", pubDate |-> T0,
      category |-> "AI_MODELS", source |-> "AINOW"],
     [id |-> "id2", link |-> "u1", pubDate |-> T0 - OneHour,
      category |-> "AI_MODELS", source |-> "AINOW"],
     [id |-> "id3", link |-> "u1", pubDate |-> T0 - OneHour - 1,
      category |-> "AI_MODELS", source |-> "AINOW"]}
LinkedBatches ==
    {<<x>> : x \in LinkedItems}
      \cup {<<x, y>> : x, y \in LinkedItems}
      \cup {<<x, y, z>> : x, y, z \in LinkedItems}

\* saveNewsItems(items); lastOp keeps the batch and the store it was called on
SaveBatch(items) ==
    LET r == saveNewsItems(newsItems, items, now, maxItems, maxAgeInDays)
    IN  /\ newsItems' = r.store
        /\ lastOp' = [op |-> "saveNewsItems", items |-> items,
                      before |-> newsItems, count |-> r.ret]
        /\ StoreFrame

NextBatch ==
    \/ \E items \in LinkedBatches : SaveBatch(items)
    \/ \E id \in Ids : Delete(id)
    \/ Advance

SpecBatch == InitStore /\ [][NextBatch]_vars

(***************************************************************************)
(* Properties of saveNewsItems (checked under SpecBatch).                  *)
(***************************************************************************)
\* saveNewsItem called on the first k items of a batch in turn: the store
\* left, what the last call returned and how many calls returned true
RECURSIVE SavedInTurn(_, _, _)
SavedInTurn(m, items, k) ==
    IF k = 0 THEN [store |-> m, ret |-> FALSE, trues |-> 0]
    ELSE LET sofar == SavedInTurn(m, items, k - 1)
             r == saveNewsItem(sofar.store, items[k], now, maxItems, maxAgeInDays)
         IN  [store |-> r.store, ret |-> r.ret,
              trues |-> sofar.trues + (IF r.ret THEN 1 ELSE 0)]

\* two items are duplicates of each other
DuplicatesOfEachOther(a, b) ==
    a.id = b.id \/ (a.link = b.link /\ Abs(a.pubDate - b.pubDate) <= OneHour)

\* saveNewsItems leaves the store and returns the count of the saves in turn
SameAsSavesInTurn ==
    LET inTurn == SavedInTurn(lastOp.before, lastOp.items, Len(lastOp.items))
    IN  newsItems = inTurn.store /\ lastOp.count = inTurn.trues

\* C35 as stated: saveNewsItems leaves the store and returns the count that
\* saveNewsItem called on each item in list order leaves and counts, so that of
\* two items of the batch that are duplicates of each other only the first is
\* stored and counted.
C35_BatchIsSavesInTurn ==
    lastOp.op = "saveNewsItems"
      => /\ SameAsSavesInTurn
         /\ \A i, j \in 1..Len(lastOp.items) :
               (i < j /\ DuplicatesOfEachOther(lastOp.items[i], lastOp.items[j]))
                 => ~SavedInTurn(lastOp.before, lastOp.items, j).ret

\* C35 amended: saveNewsItems leaves the store and returns the count that
\* saveNewsItem called on each item in list order leaves and counts; of two
\* items of the batch that are duplicates of each other the second is not
\* stored and not counted whenever the first is in the store at the time the
\* second is saved (it was accepted, or was stored before, and has not been
\* pruned or evicted since).
C35_BatchIsSavesInTurnWhileStored ==
    lastOp.op = "saveNewsItems"
      => /\ SameAsSavesInTurn
         /\ \A i, j \in 1..Len(lastOp.items) :
               (/\ i < j
                /\ DuplicatesOfEachOther(lastOp.items[i], lastOp.items[j])
                /\ MapHas(SavedInTurn(lastOp.before, lastOp.items, j - 1).store,
                          lastOp.items[i].id)
                /\ MapGet(SavedInTurn(lastOp.before, lastOp.items, j - 1).store,
                          lastOp.items[i].id) = lastOp.items[i])
                 => LET second == SavedInTurn(lastOp.before, lastOp.items, j)
                    IN  /\ ~second.ret
                        /\ second.store =
                             SavedInTurn(lastOp.before, lastOp.items, j - 1).store

\* C35 witness: a batch of two items that are duplicates of each other was
\* saved into a store that can hold both, and only the first is stored and
\* counted
C35_Witness ==
    /\ lastOp.op = "saveNewsItems"
    /\ Len(lastOp.items) = 2 /\ lastOp.items[1].id # lastOp.items[2].id
    /\ DuplicatesOfEachOther(lastOp.items[1], lastOp.items[2])
    /\ lastOp.before = <<>> /\ maxItems = 2
    /\ lastOp.count = 1
    /\ MapKeys(newsItems) = {lastOp.items[1].id}

(***************************************************************************)
(* checkDataIntegrity.  An issue is the key of the entry and the check     *)
(* that failed; the issues are listed in the order of the Map, and for one *)
(* entry in the order of the checks.                                       *)
(***************************************************************************)
\* getTime() of an invalid Date is NaN
isNaN(t) == t = InvalidDate
\* !s for a string
Not(s) == s = ""

Issue(id, issue) == [key |-> id, issue |-> issue]

\* checkDataIntegrity without the check that item.id is the key
IssuesOfIgnoringKey(id, item) ==
    (IF Not(item.id) \/ Not(item.title) \/ Not(item.link) \/ Not(item.source)
     THEN <<Issue(id, "Missing required fields")>> ELSE <<>>)
    \o (IF isNaN(item.pubDate)
        THEN <<Issue(id, "Invalid publication date")>> ELSE <<>>)
    \o (IF isNaN(item.createdAt)
        THEN <<Issue(id, "Invalid creation date")>> ELSE <<>>)
    \o (IF item.category \notin CategorySet
        THEN <<Issue(id, "Invalid category")>> ELSE <<>>)

\* the issues pushed for one entry of the Map
IssuesOf(id, item) ==
    (IF Not(item.id) \/ Not(item.title) \/ Not(item.link) \/ Not(item.source)
     THEN <<Issue(id, "Missing required fields")>> ELSE <<>>)
    \o (IF item.id # id
        THEN <<Issue(id, "ID mismatch")>> ELSE <<>>)
    \o (IF isNaN(item.pubDate)
        THEN <<Issue(id, "Invalid publication date")>> ELSE <<>>)
    \o (IF isNaN(item.createdAt)
        THEN <<Issue(id, "Invalid creation date")>> ELSE <<>>)
    \o (IF item.category \notin CategorySet
        THEN <<Issue(id, "Invalid category")>> ELSE <<>>)

RECURSIVE IntegrityFrom(_, _, _, _)
IntegrityFrom(m, i, issues, validItems) ==
    IF i > Len(m)
    THEN [isValid |-> Len(issues) = 0, issues |-> issues,
          totalItems |-> Len(m), validItems |-> validItems]
    ELSE LET found == IssuesOf(m[i].key, m[i].item)
         IN  IntegrityFrom(m, i + 1, issues \o found,
                           IF found = <<>> THEN validItems + 1 ELSE validItems)

checkDataIntegrity(m) == IntegrityFrom(m, 1, <<>>, 0)

(***************************************************************************)
(* SpecIntegrity: a StorageService under saves of well-formed items,       *)
(* deletes, and updates whose partial empties the title, gives another id, *)
(* an invalid creation date or a category that is none of the ten.         *)
(***************************************************************************)
SoundItems ==
    {[id |-> "id1", title |-> "t", link |-> "u1", source |-> "AINOW",
      pubDate |-> T0, createdAt |-> T0, category |-> "AI_MODELS"],
     [id |-> "id2", title |-> "t", link |-> "u1", source |-> "AINOW",
      pubDate |-> T0 - OneHour - 1, createdAt |-> T0, category |-> "AI_IDE"],
     [id |-> "id3", title |-> "t", link |-> "u2", source |-> "Qiita",
      pubDate |-> T0, createdAt |-> T0, category |-> "AI_MODELS"]}

SoundBatches ==
    {<<a, b>> : a, b \in SoundItems} \cup {<<a>> : a \in SoundItems}

NothingPresent ==
    [id |-> Absent, title |-> Absent, link |-> Absent, source |-> Absent,
     pubDate |-> AbsentDate, createdAt |-> AbsentDate, category |-> Absent]

BreakingPartials ==
    {[NothingPresent EXCEPT !.title = ""],
     [NothingPresent EXCEPT !.id = "id1"],
     [NothingPresent EXCEPT !.createdAt = InvalidDate],
     [NothingPresent EXCEPT !.category = "AI_UNKNOWN"]}

NextIntegrity ==
    \/ \E n \in SoundItems : Save(n)
    \/ \E items \in SoundBatches : SaveAll(items)
    \/ \E id \in Ids, u \in BreakingPartials : Update(id, u)
    \/ \E id \in Ids : Delete(id)
    \/ Advance

SpecIntegrity == InitStore /\ [][NextIntegrity]_vars

(***************************************************************************)
(* Properties of checkDataIntegrity (checked under SpecIntegrity).         *)
(***************************************************************************)
AllValid(m) ==
    LET report == checkDataIntegrity(m)
    IN  /\ report.isValid
        /\ report.issues = <<>>
        /\ report.validItems = report.totalItems

Broken(e) ==
    \/ e.item.id = "" \/ e.item.title = "" \/ e.item.link = "" \/ e.item.source = ""
    \/ e.item.id # e.key
    \/ e.item.pubDate = InvalidDate \/ e.item.createdAt = InvalidDate
    \/ e.item.category \notin {AICategory[i] : i \in 1..Len(AICategory)}

\* C26: a new store is reported valid, and a saveNewsItem, saveNewsItems or
\* deleteNewsItem call with well-formed items (pruning and eviction included)
\* on a store reported valid leaves a store that checkDataIntegrity reports
\* valid, without issues and with validItems = totalItems; and in every state
\* isValid is false exactly when some stored item misses a required field,
\* has an id that is not its key, an invalid date or an unknown category.
C26_IntegrityOfSavedItems ==
    /\ [](/\ newsItems = <<>> => AllValid(newsItems)
          /\ ~checkDataIntegrity(newsItems).isValid
                <=> \E e \in Entries(newsItems) : Broken(e))
    /\ [][(lastOp'.op \in {"save", "saveAll", "delete"} /\ AllValid(newsItems))
             => AllValid(newsItems')]_vars

\* C26 witness: a batch of two was saved beside a stored item of which the
\* limit allowed to keep one only, and the two kept are reported valid
C26_Witness ==
    /\ lastOp.op = "saveAll" /\ lastOp.count = 2
    /\ maxItems = 2 /\ Len(newsItems) = 2
    /\ "id1" \notin {e.key : e \in Entries(newsItems)}
    /\ checkDataIntegrity(newsItems).validItems = 2


(***************************************************************************)
(* The counters of the runs.                                               *)
(***************************************************************************)
\* a run is in flight: executeCollection has set isRunning and has not
\* completed yet
RunInFlight == IF isRunning THEN 1 ELSE 0

\* C36: in every reachable state, whatever the interleaving of triggers,
\* completions and resetStats (a resetStats while a run is in flight included),
\* totalRuns = successfulRuns + failedRuns + (1 if a run is in flight, else 0),
\* hence successfulRuns + failedRuns <= totalRuns.
C36_RunsAccounted ==
    /\ stats.totalRuns = stats.successfulRuns + stats.failedRuns + RunInFlight
    /\ stats.successfulRuns + stats.failedRuns <= stats.totalRuns


(***************************************************************************)
(* What saveNewsItem returns for an item it removes again (checked under   *)
(* SpecBatch, saveNewsItem being saveNewsItems on a batch of one item).    *)
(***************************************************************************)
\* the items of the batch that are not duplicates when their turn comes
NotDuplicateInTurn(m, items) ==
    {k \in 1..Len(items) : ~isDuplicate(SavedInTurn(m, items, k - 1).store, items[k])}

\* C37: saveNewsItem returns true for every item that is not a duplicate,
\* also when the pruning or the eviction of the same call removes the item
\* again; saveNewsItems counts every such item, so its count (which the
\* scheduler adds to totalItemsCollected) is the number of items that were
\* not duplicates in their turn, not the number of items the store gained.
C37_TrueAlthoughRemoved ==
    lastOp.op = "saveNewsItems"
      => /\ \A k \in 1..Len(lastOp.items) :
               SavedInTurn(lastOp.before, lastOp.items, k).ret
                 = (k \in NotDuplicateInTurn(lastOp.before, lastOp.items))
         /\ lastOp.count = Cardinality(NotDuplicateInTurn(lastOp.before, lastOp.items))

\* C37 witness: one item was saved, the call returned true (count 1), the item
\* is not in the store, and the count exceeds what the store gained
C37_Witness ==
    /\ lastOp.op = "saveNewsItems"
    /\ Len(lastOp.items) = 1
    /\ lastOp.count = 1
    /\ ~MapHas(newsItems, lastOp.items[1].id)
    /\ lastOp.count > Len(newsItems) - Len(lastOp.before)


(***************************************************************************)
(* SpecRerun: the scheduler of api/server.ts (a store with the default     *)
(* limits) under manual triggers, every source answering its first attempt *)
(* with a feed; lastOp keeps what a run fetched and what the run before it *)
(* had left.                                                               *)
(***************************************************************************)
\* a record published more than maxAgeInDays before the store is built
RawStale == [link |-> "u2", pubDate |-> T0 - DefaultMaxAgeInDays * DayMs - 1]
RerunFeeds == {<<>>, <<RawGood>>, <<RawStale>>, <<RawGood, RawStale>>}

\* collectFromAllSources resolves, source i having answered with feeds[i]
RerunCollects(c, feeds) ==
    LET collectedNews ==
            CollectorValue([i \in SourceIndex |-> [ok |-> TRUE, items |-> feeds[i]]], now)
    IN  /\ pc[c] = "collecting"
        /\ collected' = [status |-> "fulfilled", value |-> collectedNews,
                         records |-> feeds]
        /\ lastOp' = [op |-> "fetched", records |-> feeds,
                      sameAsBefore |-> (collected.status = "fulfilled"
                                          /\ collected.records = feeds),
                      storeBefore |-> newsItems,
                      totalBefore |-> stats.totalItemsCollected]
        /\ IF Len(collectedNews) = 0
           THEN Finish(c, TRUE, 0, NoError)
           ELSE /\ pc' = [pc EXCEPT ![c] = "classified"]
                /\ runOf' = [runOf EXCEPT
                                ![c].batch = classifyNewsBatch(collectedNews,
                                    [k \in 1..Len(collectedNews) |-> "AI_MODELS"])]
                /\ UNCHANGED <<isRunning, stats, runDurations, result, runsLeft>>
        /\ UNCHANGED <<newsItems, now, task, timers>>
        /\ UNCHANGED <<maxItems, maxAgeInDays, fetch, classifierVars>>

NextRerun ==
    \/ \E c \in ManualCallers : TriggerManually(c)
    \/ \E c \in ManualCallers, feeds \in [SourceIndex -> RerunFeeds] :
          RerunCollects(c, feeds)
    \/ \E c \in ManualCallers : StorageSaves(c)
    \/ \E c \in ManualCallers : RunCompletes(c)
    \/ Tick

SpecRerun == InitFair /\ [][NextRerun]_vars

\* C38: when a run has fetched exactly the records the run before it fetched
\* (the same links and publication timestamps) and nothing else touched the
\* store between the two, the run reports 0 items, adds 0 to
\* totalItemsCollected and leaves the store as the run before left it.
C38_SameFetchAddsNothing ==
    [][\A c \in ManualCallers :
          (RunEnds(c) /\ lastOp'.op = "fetched" /\ lastOp'.sameAsBefore)
            => /\ result'[c].itemsCollected = 0
               /\ stats'.totalItemsCollected = lastOp'.totalBefore
               /\ newsItems' = lastOp'.storeBefore]_vars


(***************************************************************************)
(* SpecNoUpdate: the StorageService of SpecStore under every call that     *)
(* changes the store except updateNewsItem.                                *)
(***************************************************************************)
NextNoUpdate ==
    \/ \E n \in NewsItem : Save(n)
    \/ \E items \in Batches : SaveAll(items)
    \/ \E id \in Ids : Delete(id)
    \/ Clear
    \/ Advance

SpecNoUpdate == InitStore /\ [][NextNoUpdate]_vars

\* C39: after any sequence of saveNewsItem, saveNewsItems, deleteNewsItem and
\* clear on a store that was empty, no two stored items have the same link and
\* publication dates at most one hour apart.
C39_NoTwoWithinTheWindow ==
    \A i, j \in 1..Len(newsItems) :
        i # j => ~(/\ newsItems[i].item.link = newsItems[j].item.link
                   /\ Abs(newsItems[i].item.pubDate - newsItems[j].item.pubDate)
                        <= OneHour)

\* C39 witness: two items of one link are stored, the second saved while the
\* first was stored
C39_Witness ==
    /\ lastOp.op \in {"save", "saveAll"}
    /\ Len(newsItems) = 2
    /\ newsItems[1].item.link = newsItems[2].item.link
    /\ newsItems[1].item.id # newsItems[2].item.id


(***************************************************************************)
(* SpecLinkless: feeds whose records lack a link are collected and saved   *)
(* in the StorageService of SpecStore.  The items carry the fields that    *)
(* checkDataIntegrity reads, and the md5 digest is the string hashed.      *)
(***************************************************************************)
Titled == [title |-> "t", link |-> Absent, pubDate |-> T0]
LinklessRecords ==
    {Titled,
     [Titled EXCEPT !.pubDate = T0 - OneHour],
     [Titled EXCEPT !.title = Absent, !.pubDate = AbsentDate]}
LinklessFeedRecords == LinklessRecords \cup {[Titled EXCEPT !.link = "u1"]}
LinklessFeeds ==
    {<<a>> : a \in LinklessFeedRecords}
      \cup {<<a, b>> : a \in LinklessFeedRecords, b \in LinklessRecords}
      \cup {<<a, [Titled EXCEPT !.pubDate = InvalidDate]>> : a \in LinklessRecords}

\* createHash('md5').update(data).digest('hex'), data being the link followed
\* by the ISO string of the date
HexDigest(id) == "md5(" \o id[2] \o ToString(id[3][2]) \o ")"

\* convertToNewsItem with its title and createdAt fields
NewsItemOf(rssItem, source, clock) ==
    LET item == convertToNewsItem(rssItem, source, clock)
    IN  [id |-> HexDigest(item.id),
         title |-> IF rssItem.title = Absent THEN "No title" ELSE rssItem.title,
         link |-> item.link, pubDate |-> item.pubDate, source |-> item.source,
         category |-> item.category, createdAt |-> clock]

\* the feed of source i is collected and what was collected is saved; a feed
\* whose conversion throws gives nothing to save
FetchAndSave(feed, i) ==
    LET r == collectFromSource([ok |-> TRUE, items |-> feed], RSS_SOURCES[i], now)
        items == IF r.ok
                 THEN [k \in 1..Len(feed) |-> NewsItemOf(feed[k], RSS_SOURCES[i], now)]
                 ELSE <<>>
        saved == saveNewsItems(newsItems, items, now, maxItems, maxAgeInDays)
    IN  /\ newsItems' = saved.store
        /\ lastOp' = [op |-> "fetch", feed |-> feed, ok |-> r.ok, items |-> items,
                      before |-> newsItems, count |-> saved.ret]
        /\ StoreFrame

NextLinkless ==
    \/ \E feed \in LinklessFeeds, i \in SourceIndex : FetchAndSave(feed, i)
    \/ Advance

SpecLinkless == InitStore /\ [][NextLinkless]_vars

\* a feed without a record that makes the conversion throw
Convertible(feed) == \A k \in 1..Len(feed) : ~ConvertThrows(feed[k])

\* checkDataIntegrity reports the entries of an empty link
LinklessReported ==
    \A e \in Entries(newsItems) :
        e.item.link = ""
          => \E n \in 1..Len(checkDataIntegrity(newsItems).issues) :
                checkDataIntegrity(newsItems).issues[n]
                  = Issue(e.key, "Missing required fields")

\* a record without a link does not fail the fetch and gives an item of link ""
LinklessConverted ==
    /\ lastOp.ok = Convertible(lastOp.feed)
    /\ lastOp.ok
         => \A k \in 1..Len(lastOp.feed) :
               lastOp.feed[k].link = Absent => lastOp.items[k].link = ""

\* C40 as stated: a record without a link is converted to an item of link ""
\* and the fetch does not fail for it; of two such items published at most
\* one hour apart only the first is stored; a stored one is reported by
\* checkDataIntegrity as missing required fields.
C40_LinklessStoredOnce ==
    /\ LinklessReported
    /\ lastOp.op = "fetch"
         => /\ LinklessConverted
            /\ \A i, j \in 1..Len(lastOp.items) :
                  (/\ i < j
                   /\ lastOp.items[i].link = "" /\ lastOp.items[j].link = ""
                   /\ Abs(lastOp.items[i].pubDate - lastOp.items[j].pubDate)
                        <= OneHour)
                    => ~SavedInTurn(lastOp.before, lastOp.items, j).ret

\* C40 amended: the same, the second of the two items being refused whenever
\* the first is in the store at the time the second is saved.
C40_LinklessStoredOnceWhileStored ==
    /\ LinklessReported
    /\ lastOp.op = "fetch"
         => /\ LinklessConverted
            /\ \A i, j \in 1..Len(lastOp.items) :
                  (/\ i < j
                   /\ lastOp.items[i].link = "" /\ lastOp.items[j].link = ""
                   /\ Abs(lastOp.items[i].pubDate - lastOp.items[j].pubDate)
                        <= OneHour
                   /\ \E e \in Entries(SavedInTurn(lastOp.before, lastOp.items,
                                                   j - 1).store) :
                         e.item = lastOp.items[i])
                    => ~SavedInTurn(lastOp.before, lastOp.items, j).ret

\* C40 witness: a feed of two records without a link, published an hour
\* apart, was saved into an empty store that can hold two; the first alone is
\* stored, and checkDataIntegrity reports it
C40_Witness ==
    /\ lastOp.op = "fetch" /\ lastOp.ok
    /\ Len(lastOp.feed) = 2
    /\ lastOp.feed[1].link = Absent /\ lastOp.feed[2].link = Absent
    /\ lastOp.items[1].id # lastOp.items[2].id
    /\ lastOp.before = <<>> /\ maxItems = 2
    /\ lastOp.count = 1
    /\ Len(newsItems) = 1 /\ newsItems[1].item = lastOp.items[1]
    /\ ~checkDataIntegrity(newsItems).isValid

====
